---- MODULE Spec2Model ----
(***************************************************************************)
(* BulkyLoad: the batch image download route and its daily quota ledger.   *)
(*                                                                         *)
(* The model follows backend/routes/download.js (POST /images, GET and     *)
(* POST /remaining), backend/models/User.js (canDownload,                  *)
(* updateDailyCount, updateDownloadHistory), the session-keyed             *)
(* AnonymousSession model and the Gumroad webhook.  Time is counted in     *)
(* calendar days: every date the code compares is first truncated with     *)
(* setHours(0, 0, 0, 0).  A request is a process that advances from one    *)
(* awaited database or network call to the next; the steps of different    *)
(* requests interleave freely, as they do on the Node event loop.          *)
(***************************************************************************)
EXTENDS Integers, Sequences, FiniteSets, TLC

\* ------------------------------------------------------------------ bounds
NumProcs == 2
MaxLen == 2
MaxDay == 1
MaxCount == 11
MonthDays == 1

Procs == 1..NumProcs
Urls == {1, 2}
SessionIds == {"s1"}
UserIds == {"u1"}

\* ------------------------------------------------------- program constants
AnonymousLimit == 5
RegisteredLimit == 10
HistoryCap == 50
Infinity == 0 - 1
NoDate == 0 - 1

VARIABLES today, sessions, users, proc

vars == <<today, sessions, users, proc>>

\* ------------------------------------------------------------------ helpers
Max(a, b) == IF a >= b THEN a ELSE b

RECURSIVE CountSuccess(_)
CountSuccess(rs) ==
  IF rs = <<>> THEN 0
  ELSE (IF Head(rs).success THEN 1 ELSE 0) + CountSuccess(Tail(rs))

\* ------------------------------------------------------------ quota policy
\* The cap of the earlier version of the route, one value for every sender
MaxUrlsLegacy(auth) == 50

\* download.js:20-25: the per-request cap depends only on req.user.
MaxUrlsPerRequest(auth) == IF auth THEN 10 ELSE 5

\* IsProActive looking at the status alone
IsProActiveIgnoresExpiry(u, now) == u.status = "pro"

\* User.js:192-194
IsProActive(u, now) ==
  u.status = "pro" /\ u.expiresAt # NoDate /\ now < u.expiresAt

\* User.js:196-204
UserLimit(u, now) == IF IsProActive(u, now) THEN Infinity ELSE RegisteredLimit

UserType(u, now) == IF IsProActive(u, now) THEN "subscribed" ELSE "registered"

\* currentCount + urlCount <= limit, with limit possibly Infinity
WithinLimit(total, limit) == limit = Infinity \/ total <= limit

\* Math.max(0, limit - currentCount); Infinity - n is Infinity
\* RemainingOf without the floor at 0
RemainingOfUnclamped(limit, current) ==
  IF limit = Infinity THEN Infinity ELSE limit - current

RemainingOf(limit, current) ==
  IF limit = Infinity THEN Infinity ELSE Max(0, limit - current)

\* The user schema declares dailyDownloads.count and dailyDownloads.lastReset
\* (User.js:64-73); canDownload and updateDailyCount read
\* dailyDownloads.resetDate (User.js:176, 245), a path the schema does not
\* have, so the read yields undefined and `undefined || new Date()` is now.
UserResetDate(u, now) == now

\* today.getTime() !== resetDate.getTime(), both truncated to midnight
IsNewDay(resetDate, now) == now # resetDate

\* UserAfterRollover taking every check for the first of a day
UserAfterRolloverAlways(u, now) == [u EXCEPT !.count = 0]

\* User.js:173-187: the count canDownload works with, and the record it
\* leaves in the collection (the reset is saved, User.js:180-182; the
\* assignment to the undeclared resetDate is not part of the document).
UserAfterRollover(u, now) ==
  IF IsNewDay(UserResetDate(u, now), now) THEN [u EXCEPT !.count = 0] ELSE u

\* User.js:166-232
CanDownload(u, urlCount, now) ==
  LET fresh == UserAfterRollover(u, now)
      limit == UserLimit(fresh, now)
  IN [canDownload |-> WithinLimit(fresh.count + urlCount, limit),
      remaining   |-> RemainingOf(limit, fresh.count),
      current     |-> fresh.count,
      limit       |-> limit,
      userType    |-> UserType(fresh, now)]

\* A session id without a saved document
NoSession == [exists |-> FALSE, count |-> 0, resetDate |-> 0, lastActivity |-> 0]

\* download.js:76-83: findOne, or a new document that is not saved here
LoadSession(doc, now) ==
  IF doc.exists
    THEN doc
    ELSE [exists |-> FALSE, count |-> 0, resetDate |-> now, lastActivity |-> now]

\* download.js:85-96: the in-memory rollover of the loaded session
SessionCurrent(doc, now) ==
  IF IsNewDay(doc.resetDate, now) THEN 0 ELSE doc.count

\* AnonCheck with the size of the batch left out of the comparison
AnonCheckIgnoresBatch(doc, urlCount, now) ==
  LET currentCount == SessionCurrent(doc, now)
  IN [canDownload |-> ~(currentCount > AnonymousLimit),
      remaining   |-> Max(0, AnonymousLimit - currentCount),
      current     |-> currentCount,
      limit       |-> AnonymousLimit,
      userType    |-> "anonymous"]

\* download.js:96-109
AnonCheck(doc, urlCount, now) ==
  LET currentCount == SessionCurrent(doc, now)
  IN [canDownload |-> ~(currentCount + urlCount > AnonymousLimit),
      remaining   |-> Max(0, AnonymousLimit - currentCount),
      current     |-> currentCount,
      limit       |-> AnonymousLimit,
      userType    |-> "anonymous"]

\* ------------------------------------------------------- per-URL processing
\* Leading bytes of the payloads the model fetches, twelve bytes each.
PngLead    == <<137, 80, 78, 71, 13, 10, 26, 10, 0, 0, 0, 13>>
JpegLead   == <<255, 216, 255, 224, 0, 16, 74, 70, 73, 70, 0, 1>>
Gif87Lead  == <<71, 73, 70, 56, 55, 97, 1, 0, 1, 0, 0, 0>>
Gif89Lead  == <<71, 73, 70, 56, 57, 97, 1, 0, 1, 0, 0, 0>>
BmpLead    == <<66, 77, 90, 0, 0, 0, 0, 0, 0, 0, 54, 0>>
WebpLead   == <<82, 73, 70, 70, 82, 0, 0, 0, 87, 69, 66, 80>>
TiffLeLead == <<73, 73, 42, 0, 8, 0, 0, 0, 1, 0, 0, 1>>
TiffBeLead == <<77, 77, 0, 42, 0, 0, 0, 8, 0, 1, 1, 0>>
HtmlLead   == <<60, 104, 116, 109, 108, 62, 60, 98, 111, 100, 121, 62>>
SvgLead    == <<60, 115, 118, 103, 32, 120, 109, 108, 110, 115, 61, 34>>
XmlSvgLead == <<60, 63, 120, 109, 108, 63, 62, 60, 115, 118, 103, 62>>

Leads ==
  {PngLead, JpegLead, Gif87Lead, Gif89Lead, BmpLead, WebpLead, TiffLeLead,
   TiffBeLead, HtmlLead, SvgLead, XmlSvgLead}

\* A payload: its leading bytes and its byte length; the empty payload, the
\* payloads of twelve bytes and the payloads of ninety.
Sizes == {12, 90}
EmptyPayload == [lead |-> <<>>, size |-> 0]
Payloads == {EmptyPayload} \cup [lead : Leads, size : Sizes]

\* What the network gives for one URL.  direct: whether the direct
\* axios.get got a response, timed out or met a network error; status: the
\* terminal status of the response (0 without one); relays[k]: whether a GET
\* through the k-th relay would succeed; ctype: the content-type header;
\* body: the payload.
Statuses == {200, 206, 304, 404, 500}
NumRelays == 3
ImageTypes == {"image/png", "image/jpeg"}
CTypes == ImageTypes \cup {"application/octet-stream", "text/plain", ""}

Nets ==
  {n \in [direct : {"response", "timeout", "network"},
          status : Statuses \cup {0},
          relays : [1..NumRelays -> BOOLEAN],
          ctype : CTypes, body : Payloads] :
     (n.direct = "response") = (n.status # 0)}

\* download.js:143-145: validateStatus; axios throws for any other status
ValidateStatus(status) == status >= 200 /\ status < 400

\* The direct GET returned a response object to the route.
Responded(net) == net.direct = "response" /\ ValidateStatus(net.status)

\* download.js:124: url.toLowerCase().endsWith(".svg"); URL 2 ends in
\* ".svg" and URL 3 in ".SVG".
IsSvgUrl(url) == url \in {2, 3}

\* download.js:176-180: filename.endsWith(".svg") on the last path segment
FilenameEndsWithSvg(url) == url = 2

\* The extension of the last path segment of the URL: URL 1 is a .png
\* address, URL 2 a .svg one and URL 3 a .SVG one.
UrlExt(url) == IF url = 1 THEN "png" ELSE IF url = 2 THEN "svg" ELSE "SVG"

Failed(url, error) ==
  [url |-> url, success |-> FALSE, error |-> error, contentType |-> "",
   size |-> 0, isSvg |-> FALSE, ext |-> ""]

\* A result and the entry of downloads pushed with it: the filename keeps
\* the extension of the URL.
Success(url, contentType, size, isSvg) ==
  [url |-> url, success |-> TRUE, error |-> "", contentType |-> contentType,
   size |-> size, isSvg |-> isSvg, ext |-> UrlExt(url)]

\* download.js:171-174: response.data.includes("<svg") on the text
IncludesSvg(body) ==
  \E k \in 1..Len(body.lead) :
    k + 3 <= Len(body.lead) /\ SubSeq(body.lead, k, k + 3) = <<60, 115, 118, 103>>

\* download.js:222: response.data.slice(0, 8)
FirstBytes(body) == SubSeq(body.lead, 1, IF Len(body.lead) < 8 THEN Len(body.lead) ELSE 8)

\* firstBytes[k] of the code, k counted from 0; undefined is -1
ByteAt(fb, k) == IF k + 1 <= Len(fb) THEN fb[k + 1] ELSE 0 - 1

\* download.js:225-266: the signature tests on the first eight bytes
IsBMP(fb) == ByteAt(fb, 0) = 66 /\ ByteAt(fb, 1) = 77
IsJPEG(fb) == ByteAt(fb, 0) = 255 /\ ByteAt(fb, 1) = 216 /\ ByteAt(fb, 2) = 255
IsPNG(fb) ==
  /\ ByteAt(fb, 0) = 137 /\ ByteAt(fb, 1) = 80 /\ ByteAt(fb, 2) = 78
  /\ ByteAt(fb, 3) = 71 /\ ByteAt(fb, 4) = 13 /\ ByteAt(fb, 5) = 10
  /\ ByteAt(fb, 6) = 26 /\ ByteAt(fb, 7) = 10
IsGIF(fb) ==
  /\ ByteAt(fb, 0) = 71 /\ ByteAt(fb, 1) = 73 /\ ByteAt(fb, 2) = 70
  /\ ByteAt(fb, 3) = 56 /\ (ByteAt(fb, 4) = 55 \/ ByteAt(fb, 4) = 57)
  /\ ByteAt(fb, 5) = 97
IsWebP(fb) ==
  /\ ByteAt(fb, 0) = 82 /\ ByteAt(fb, 1) = 73 /\ ByteAt(fb, 2) = 70
  /\ ByteAt(fb, 3) = 87 /\ ByteAt(fb, 4) = 69 /\ ByteAt(fb, 5) = 66
  /\ ByteAt(fb, 6) = 80
IsTIFF(fb) ==
  \/ ByteAt(fb, 0) = 73 /\ ByteAt(fb, 1) = 73
  \/ ByteAt(fb, 0) = 77 /\ ByteAt(fb, 1) = 77

\* download.js:268-277
DetectedBySignature(fb) ==
  IF IsBMP(fb) THEN "image/bmp"
  ELSE IF IsJPEG(fb) THEN "image/jpeg"
  ELSE IF IsPNG(fb) THEN "image/png"
  ELSE IF IsGIF(fb) THEN "image/gif"
  ELSE IF IsWebP(fb) THEN "image/webp"
  ELSE IF IsTIFF(fb) THEN "image/tiff"
  ELSE ""

\* download.js:209-290: the header first; the signature probe only for a
\* header that is neither image/* nor octet-stream
Classify(ctype, body) ==
  IF ctype \in ImageTypes
    THEN [isImage |-> TRUE, detectedType |-> ctype]
  ELSE IF ctype = "application/octet-stream"
    THEN [isImage |-> FALSE, detectedType |-> "application/octet-stream"]
  ELSE LET detected == DetectedBySignature(FirstBytes(body))
       IN [isImage |-> detected # "", detectedType |-> detected]

IsImage(net) == Classify(net.ctype, net.body).isImage

\* Buffer.toString("base64"): four characters for every three bytes
Base64Len(n) == 4 * ((n + 2) \div 3)

TypeLen(type) ==
  IF type \in {"image/png", "image/bmp", "image/gif"} THEN 9
  ELSE IF type \in {"image/jpeg", "image/webp", "image/tiff"} THEN 10
  ELSE 0

\* download.js:330: `data:${detectedType};base64,${base64}`
DataUrlLen(type, n) == 5 + TypeLen(type) + 8 + Base64Len(n)

\* download.js:157-366: the response of a completed GET becomes one result.
\* In the SVG branch the assignment to the const filename throws for a name
\* that does not end in ".svg"; the catch of the loop body reports it.
ProcessResponse(url, status200, net) ==
  IF ~status200 THEN Failed(url, "HTTP status")
  ELSE IF IsSvgUrl(url)
    THEN IF ~IncludesSvg(net.body) THEN Failed(url, "Invalid SVG content")
         ELSE IF ~FilenameEndsWithSvg(url) THEN Failed(url, "Failed to download image")
         ELSE Success(url, "image/svg+xml", net.body.size, TRUE)
  ELSE LET c == Classify(net.ctype, net.body)
       IN IF ~c.isImage THEN Failed(url, "Not an image file")
          ELSE IF Base64Len(net.body.size) = 0
            THEN Failed(url, "Failed to encode image data")
          ELSE IF DataUrlLen(c.detectedType, net.body.size) < 100
            THEN Failed(url, "Failed to create valid data URL")
          ELSE Success(url, c.detectedType, net.body.size, FALSE)

\* download.js:127-155: one direct GET; any error thrown by it ends the URL
FetchResult(url, net) ==
  IF Responded(net)
    THEN ProcessResponse(url, net.status = 200, net)
    ELSE Failed(url, "Failed to download image")

\* download.js:181-188 and 346-351: the entry of successfulDownloads
Download(url, size, isSvg) ==
  [url |-> url, ext |-> UrlExt(url), size |-> size, isSvg |-> isSvg]

\* PushDownload with the push of an image placed before the checks of its
\* base64 text and its data URL
PushDownloadBeforeValidation(downloads, url, net) ==
  IF ~Responded(net) \/ net.status # 200 THEN downloads
  ELSE IF IsSvgUrl(url)
    THEN IF IncludesSvg(net.body) /\ FilenameEndsWithSvg(url)
           THEN Append(downloads, Download(url, net.body.size, TRUE))
           ELSE downloads
  ELSE IF Classify(net.ctype, net.body).isImage
    THEN Append(downloads, Download(url, net.body.size, FALSE))
    ELSE downloads

\* download.js:118-375: the pushes of one iteration to successfulDownloads:
\* in the SVG branch after the name is fixed (176-188), in the image
\* branch after the last validation (346-351), nowhere else.
PushDownload(downloads, url, net) ==
  IF ~Responded(net) \/ net.status # 200 THEN downloads
  ELSE IF IsSvgUrl(url)
    THEN IF IncludesSvg(net.body) /\ FilenameEndsWithSvg(url)
           THEN Append(downloads, Download(url, net.body.size, TRUE))
           ELSE downloads
  ELSE IF /\ Classify(net.ctype, net.body).isImage
          /\ Base64Len(net.body.size) # 0
          /\ DataUrlLen(Classify(net.ctype, net.body).detectedType,
                        net.body.size) >= 100
    THEN Append(downloads, Download(url, net.body.size, FALSE))
    ELSE downloads

\* LoopBody with the push of the failed direct fetch left out
LoopBodySkipsFailedFetch(results, url, net) ==
  IF Responded(net)
    THEN Append(results, FetchResult(url, net))
    ELSE results

\* download.js:118-375: one iteration of the loop pushes one result
LoopBody(results, url, net) == Append(results, FetchResult(url, net))

\* ------------------------------------------------------------------- state
\* sessions[s]: the AnonymousSession document of session id s, if saved.
\* users[u]: the User document (dailyDownloads and subscription).
\* proc[p]: one request in flight: where it stands (pc), who sent it, the
\* urls of the body, what the network will answer for each of them (nets),
\* the loop index, the results pushed so far, the
\* document as the check loaded it (seen), the count the commit loaded
\* (fresh), the day the request computed as today (day) and the response
\* once sent.
NoResp ==
  [status |-> 0, kind |-> "none", current |-> 0, remaining |-> 0, limit |-> 0,
   requested |-> 0, maxAllowed |-> 0, total |-> 0, successful |-> 0, failed |-> 0,
   allowed |-> FALSE]

NoSeen ==
  [exists |-> FALSE, count |-> 0, stale |-> FALSE, quiet |-> FALSE, limit |-> 0]

Idle ==
  [pc |-> "idle", auth |-> FALSE, key |-> "", urls |-> <<>>, nets |-> <<>>,
   i |-> 0,
   results |-> <<>>, day |-> 0, seen |-> NoSeen, fresh |-> 0,
   resp |-> NoResp, conv |-> <<>>, zip |-> <<>>, downloads |-> <<>>]

\* User.js:55-93: schema defaults at registration; updatedAt is the day of
\* the last save of the document (timestamps, User.js:87-93).
NewUser(now) ==
  [count |-> 0, lastReset |-> now, status |-> "free", expiresAt |-> NoDate,
   updatedAt |-> now]

Init ==
  /\ today = 0
  /\ sessions = [s \in SessionIds |-> NoSession]
  /\ users = [u \in UserIds |-> NewUser(0)]
  /\ proc = [p \in Procs |-> Idle]

\* The inputs of a request: the empty list, the lists up to MaxLen that
\* alternate the two URLs from either one, and a list one longer than the
\* sender's cap.
UrlList(first, n) == [k \in 1..n |-> IF k % 2 = 1 THEN first ELSE 3 - first]

OverCap(auth) == UrlList(2, MaxUrlsPerRequest(auth) + 1)

Batches(auth) ==
  {UrlList(first, n) : first \in Urls, n \in 0..MaxLen} \cup {OverCap(auth)}

\* The network outcomes the batches of the model meet: a direct fetch that
\* delivers the image of the URL (a PNG, or SVG text for the .svg URL), and
\* one that times out.
BatchNet(url, delivered) ==
  [direct |-> IF delivered THEN "response" ELSE "timeout",
   status |-> IF delivered THEN 200 ELSE 0,
   relays |-> [k \in 1..NumRelays |-> FALSE],
   ctype |-> "image/png",
   body |-> [lead |-> IF IsSvgUrl(url) THEN SvgLead ELSE PngLead, size |-> 90]]

\* What the check loaded, kept for the request: the stored count, whether
\* the stored window started on an earlier day (stale), whether the last
\* save of the record was on an earlier day (quiet), and the limit of the
\* sender.
SeenSession(doc, now) ==
  [exists |-> doc.exists, count |-> doc.count,
   stale |-> doc.exists /\ doc.resetDate # now,
   quiet |-> doc.exists /\ doc.lastActivity # now,
   limit |-> AnonymousLimit]

SeenUser(u, now) ==
  [exists |-> TRUE, count |-> u.count,
   stale |-> u.lastReset # now,
   quiet |-> u.updatedAt # now,
   limit |-> UserLimit(u, now)]

Reject(q, status, kind, chk, requested, maxAllowed) ==
  [q EXCEPT !.pc = "done",
            !.resp = [NoResp EXCEPT !.status = status, !.kind = kind,
                                    !.current = chk.current,
                                    !.remaining = chk.remaining,
                                    !.limit = chk.limit,
                                    !.requested = requested,
                                    !.maxAllowed = maxAllowed]]

NoCheck == [canDownload |-> TRUE, remaining |-> 0, current |-> 0, limit |-> 0,
            userType |-> ""]

\* download.js:10-112: POST /images up to the end of the quota check.  The
\* validation and the cap are synchronous; the check reads the collection
\* once (User.js:168, download.js:76) and decides on that read.
Admission(q, auth, urls, nets, chk) ==
  IF Len(urls) = 0
    THEN Reject(q, 400, "bad_request", NoCheck, 0, 0)
  ELSE IF Len(urls) > MaxUrlsPerRequest(auth)
    THEN Reject(q, 400, "too_many", NoCheck, Len(urls), MaxUrlsPerRequest(auth))
  ELSE IF ~chk.canDownload
    THEN Reject(q, 403, "quota", chk, Len(urls), 0)
  ELSE [q EXCEPT !.pc = "fetch", !.i = 1, !.nets = nets]

SubmitImages(p, auth, key, urls, nets) ==
  /\ proc[p].pc = "idle"
  /\ (IF auth THEN users[key].count ELSE sessions[key].count) <= MaxCount
  /\ LET now == today
         chk == IF auth THEN CanDownload(users[key], Len(urls), now)
                ELSE AnonCheck(LoadSession(sessions[key], now), Len(urls), now)
         seen == IF auth THEN SeenUser(users[key], now)
                 ELSE SeenSession(sessions[key], now)
         q == [Idle EXCEPT !.auth = auth, !.key = key, !.urls = urls,
                           !.day = now, !.seen = seen]
     IN /\ proc' = [proc EXCEPT ![p] = Admission(q, auth, urls, nets, chk)]
        /\ users' = IF auth /\ Len(urls) > 0
                       /\ Len(urls) <= MaxUrlsPerRequest(auth)
                    THEN [users EXCEPT ![key] = UserAfterRollover(@, now)]
                    ELSE users
  /\ UNCHANGED <<today, sessions>>

\* download.js:118-375: the next URL of the loop
FetchUrl(p) ==
  /\ proc[p].pc = "fetch"
  /\ LET q == proc[p]
         rs == LoopBody(q.results, q.urls[q.i], q.nets[q.i])
     IN proc' = [proc EXCEPT ![p] =
                   [q EXCEPT !.results = rs, !.i = q.i + 1,
                             !.downloads = PushDownload(q.downloads, q.urls[q.i],
                                                        q.nets[q.i]),
                             !.pc = IF q.i + 1 > Len(q.urls) THEN "commit"
                                    ELSE "fetch"]]
  /\ UNCHANGED <<today, sessions, users>>

\* Completed answering 500 when no URL of the batch succeeded
CompletedErrorWhenAllFailed(q) ==
  IF CountSuccess(q.results) = 0
    THEN [q EXCEPT !.pc = "done",
                   !.resp = [NoResp EXCEPT !.status = 500, !.kind = "error"]]
    ELSE [q EXCEPT !.pc = "done",
                   !.resp = [NoResp EXCEPT !.status = 200, !.kind = "completed",
                                           !.total = Len(q.urls),
                                           !.successful = CountSuccess(q.results),
                                           !.failed = Len(q.results) - CountSuccess(q.results)]]

\* download.js:447-456
Completed(q) ==
  [q EXCEPT !.pc = "done",
            !.resp = [NoResp EXCEPT
                        !.status = 200, !.kind = "completed",
                        !.total = Len(q.urls),
                        !.successful = Len(SelectSeq(q.results, LAMBDA r : r.success)),
                        !.failed = Len(SelectSeq(q.results, LAMBDA r : ~r.success))]]

\* download.js:377-386 and 401-409 with User.js:235-251: the commit loads
\* the document again.  Without a saved session, or without a success, an
\* anonymous batch answers at once; a user batch without a success goes on
\* to the history save.
CommitRead(p) ==
  /\ proc[p].pc = "commit"
  /\ LET q == proc[p]
         successfulCount == CountSuccess(q.results)
     IN proc' = [proc EXCEPT ![p] =
          IF q.auth
            THEN IF successfulCount > 0
                   THEN [q EXCEPT !.pc = "save",
                                  !.fresh = UserAfterRollover(users[q.key], today).count]
                   ELSE [q EXCEPT !.pc = "hist"]
            ELSE IF sessions[q.key].exists /\ successfulCount > 0
                   THEN [q EXCEPT !.pc = "save", !.fresh = sessions[q.key].count]
                   ELSE Completed(q)]
  /\ UNCHANGED <<today, sessions, users>>

\* download.js:387-388 and User.js:253-270: count += successfulCount; save()
CommitSaveEverySession(p) ==
  /\ proc[p].pc = "save"
  /\ LET q == proc[p]
         newCount == q.fresh + CountSuccess(q.results)
     IN IF q.auth
          THEN /\ users' = [users EXCEPT ![q.key].count = newCount,
                                          ![q.key].updatedAt = today]
               /\ proc' = [proc EXCEPT ![p] = [q EXCEPT !.pc = "hist", !.fresh = newCount]]
               /\ UNCHANGED sessions
          ELSE /\ sessions' = [s \in DOMAIN sessions |->
                                 [sessions[s] EXCEPT !.count = newCount,
                                                     !.lastActivity = today]]
               /\ proc' = [proc EXCEPT ![p] = Completed(q)]
               /\ UNCHANGED users
  /\ UNCHANGED today

CommitSave(p) ==
  /\ proc[p].pc = "save"
  /\ LET q == proc[p]
         newCount == q.fresh + CountSuccess(q.results)
     IN IF q.auth
          THEN /\ users' = [users EXCEPT ![q.key].count = newCount,
                                          ![q.key].updatedAt = today]
               /\ proc' = [proc EXCEPT ![p] = [q EXCEPT !.pc = "hist", !.fresh = newCount]]
               /\ UNCHANGED sessions
          ELSE /\ sessions' = [sessions EXCEPT ![q.key].count = newCount,
                                                ![q.key].lastActivity = today]
               /\ proc' = [proc EXCEPT ![p] = Completed(q)]
               /\ UNCHANGED users
  /\ UNCHANGED today

\* User.js:78-84 and 122-126: an entry of the download history.  The
\* timestamps of the entries grow with the order of the saves; id is the
\* rank of the timestamp.
NextHistoryId(history) ==
  IF history = <<>> THEN 1 ELSE history[Len(history)].id + 1

\* download.js:413-418
HistoryEntry(u, urls, results) ==
  [id |-> IF "downloadHistory" \in DOMAIN u
            THEN NextHistoryId(u.downloadHistory) ELSE 0,
   urls |-> urls,
   successCount |-> CountSuccess(results),
   failedCount |-> Len(results) - CountSuccess(results),
   totalCount |-> Len(urls)]

\* UpdateDownloadHistory keeping the first 50 entries
UpdateDownloadHistoryKeepsOldest(history, entry) ==
  LET pushed == Append(history, entry)
  IN IF Len(pushed) > HistoryCap THEN SubSeq(pushed, 1, HistoryCap) ELSE pushed

\* User.js:128-134: push, then slice(-50)
UpdateDownloadHistory(history, entry) ==
  LET pushed == Append(history, entry)
  IN IF Len(pushed) > HistoryCap
       THEN SubSeq(pushed, Len(pushed) - HistoryCap + 1, Len(pushed))
       ELSE pushed

\* User.js:136: the save of the document with the new history.  The
\* specifications that do not observe the history keep the documents
\* without the field.
WithHistory(u, entry) ==
  IF "downloadHistory" \in DOMAIN u
    THEN [u EXCEPT !.downloadHistory = UpdateDownloadHistory(@, entry)]
    ELSE u

\* download.js:412-433 with User.js:122-137: updateDownloadHistory saves the
\* document loaded at download.js:403; after updateDailyCount that document
\* carries the dailyDownloads assigned at User.js:270, which the save writes.
HistSave(p) ==
  /\ proc[p].pc = "hist"
  /\ LET q == proc[p]
     IN /\ users' = [users EXCEPT
                      ![q.key] = WithHistory(
                        [@ EXCEPT !.count = IF CountSuccess(q.results) > 0
                                              THEN q.fresh ELSE @,
                                  !.updatedAt = today],
                        HistoryEntry(@, q.urls, q.results))]
        /\ proc' = [proc EXCEPT ![p] = Completed(q)]
  /\ UNCHANGED <<today, sessions>>

\* ------------------------------------------------------------- the client
\* imageDownloader.js:11-57: convertSvgToPng resolves with a PNG blob, or
\* rejects when the image does not load or toBlob gives no blob.
Conversions == {"png", "loadError", "noOutput"}

ConvertSvgToPng(conv) == conv = "png"

\* imageDownloader.js:337: download.isSvg || filename ends in ".svg",
\* compared in lower case
IsSvgDownload(d) == d.isSvg \/ d.ext \in {"svg", "SVG"}

\* ProcessDownload without the catch around the conversion: the rejection
\* reaches the catch of the loop body and the download adds no file.
ProcessDownloadNoFallback(d, conv) ==
  IF IsSvgDownload(d)
    THEN IF ConvertSvgToPng(conv)
           THEN [url |-> d.url, ext |-> "png", bytes |-> "png"]
           ELSE [url |-> d.url, ext |-> "", bytes |-> "none"]
    ELSE [url |-> d.url, ext |-> d.ext, bytes |-> "original"]

\* imageDownloader.js:311-400: one download becomes one file of the ZIP.
\* A failed conversion is caught and the original SVG blob is added.
ProcessDownload(d, conv) ==
  IF IsSvgDownload(d)
    THEN IF ConvertSvgToPng(conv)
           THEN [url |-> d.url, ext |-> "png", bytes |-> "png"]
           ELSE [url |-> d.url, ext |-> "svg", bytes |-> "svg"]
    ELSE [url |-> d.url, ext |-> d.ext, bytes |-> "original"]

\* imageDownloader.js:289-400: the files added to the ZIP, in order
ZipFiles(downloads, conv) ==
  SelectSeq([k \in 1..Len(downloads) |-> ProcessDownload(downloads[k], conv[k])],
            LAMBDA f : f.bytes # "none")

\* useDownloadManager.js:58-77 with imageDownloader.js:289-465: the client
\* builds the ZIP from the downloads of the response.  Without a download,
\* or without a file, an error is thrown and the catch of the hook reports it.
ClientProcess(p) ==
  /\ proc[p].pc = "done" /\ proc[p].resp.kind = "completed"
  /\ LET q == proc[p]
         downloads == q.downloads
     IN \E conv \in [1..Len(downloads) -> Conversions] :
          /\ \A k \in 1..Len(downloads) :
               ~IsSvgDownload(downloads[k]) => conv[k] = "png"
          /\ LET zip == ZipFiles(downloads, conv)
             IN proc' = [proc EXCEPT ![p] =
                  [q EXCEPT !.conv = conv, !.zip = zip,
                            !.pc = IF Len(zip) = 0 THEN "clientError" ELSE "saved"]]
  /\ UNCHANGED <<today, sessions, users>>

\* The response has been delivered; the slot takes the next request.
Finish(p) ==
  /\ proc[p].pc \in {"done", "saved", "clientError"}
  /\ proc' = [proc EXCEPT ![p] = Idle]
  /\ UNCHANGED <<today, sessions, users>>

\* download.js:529-550: GET /remaining of an authenticated user
RemainingUser(p, u) ==
  /\ proc[p].pc = "idle"
  /\ LET now == today
         chk == CanDownload(users[u], 0, now)
         q == [Idle EXCEPT !.auth = TRUE, !.key = u, !.day = now,
                           !.seen = SeenUser(users[u], now)]
     IN proc' = [proc EXCEPT ![p] =
                   [q EXCEPT !.pc = "done",
                             !.resp = [NoResp EXCEPT !.status = 200,
                                                     !.kind = "remaining",
                                                     !.allowed = chk.canDownload,
                                                     !.current = chk.current,
                                                     !.remaining = chk.remaining,
                                                     !.limit = chk.limit]]]
  /\ users' = [users EXCEPT ![u] = UserAfterRollover(@, today)]
  /\ UNCHANGED <<today, sessions>>

\* download.js:596-602
RemainingAnswer(q, current) ==
  [q EXCEPT !.pc = "done",
            !.resp = [NoResp EXCEPT !.status = 200, !.kind = "remaining",
                                    !.current = current,
                                    !.remaining = Max(0, AnonymousLimit - current),
                                    !.limit = AnonymousLimit]]

\* download.js:553-582: POST /remaining loads the session; a missing
\* document and a document of an earlier day are saved before the answer.
RemainingAnon(p, s) ==
  /\ proc[p].pc = "idle"
  /\ LET now == today
         doc == sessions[s]
         q == [Idle EXCEPT !.key = s, !.day = now, !.seen = SeenSession(doc, now),
                           !.fresh = doc.count]
     IN proc' = [proc EXCEPT ![p] =
                   IF ~doc.exists \/ IsNewDay(doc.resetDate, now)
                     THEN [q EXCEPT !.pc = "probeSave"]
                     ELSE RemainingAnswer(q, doc.count)]
  /\ UNCHANGED <<today, sessions, users>>

\* download.js:569 and 579-581: save() inserts the new document (the unique
\* index on sessionId refuses a second one, and the handler answers 500) or
\* writes the paths the reset modified.
RemainingAnonSave(p) ==
  /\ proc[p].pc = "probeSave"
  /\ LET q == proc[p]
         doc == sessions[q.key]
     IN IF ~q.seen.exists
          THEN IF doc.exists
                 THEN /\ proc' = [proc EXCEPT ![p] =
                            [q EXCEPT !.pc = "done",
                                      !.resp = [NoResp EXCEPT !.status = 500,
                                                              !.kind = "error"]]]
                      /\ UNCHANGED sessions
                 ELSE /\ sessions' = [sessions EXCEPT ![q.key] =
                            [exists |-> TRUE, count |-> 0, resetDate |-> q.day,
                             lastActivity |-> today]]
                      /\ proc' = [proc EXCEPT ![p] = RemainingAnswer(q, 0)]
          ELSE /\ sessions' = [sessions EXCEPT ![q.key] =
                     [doc EXCEPT !.count = IF q.fresh # 0 THEN 0 ELSE doc.count,
                                 !.resetDate = q.day,
                                 !.lastActivity = today]]
               /\ proc' = [proc EXCEPT ![p] = RemainingAnswer(q, 0)]
  /\ UNCHANGED <<today, users>>

\* gumroad-webhook.js:104-122 and 126-142: an activation sets the
\* subscription to pro for one month, a cancellation sets it to free.
GumroadWebhook(u, activation) ==
  /\ users' = [users EXCEPT ![u] =
                 IF activation
                   THEN [@ EXCEPT !.status = "pro",
                                  !.expiresAt = today + MonthDays,
                                  !.updatedAt = today]
                   ELSE [@ EXCEPT !.status = "free", !.expiresAt = NoDate,
                                  !.updatedAt = today]]
  /\ UNCHANGED <<today, sessions, proc>>

\* Midnight passes.
Tick ==
  /\ today < MaxDay
  /\ today' = today + 1
  /\ UNCHANGED <<sessions, users, proc>>

\* One network answer per URL of the list
NetsFor(urls, answers) == [1..Len(urls) -> answers]

\* The answers a batch of the model meets; the URLs of a list over the cap
\* all deliver an image.
BatchAnswers(urls) ==
  {[k \in 1..Len(urls) |-> BatchNet(urls[k], delivered[k])] :
     delivered \in [1..Len(urls) -> IF Len(urls) <= MaxLen THEN BOOLEAN ELSE {TRUE}]}

\* The batches of concurrent requests: a single URL, and two URLs in an
\* order that is not the order of their numbers.
ConcurrentBatches == {<<1>>, <<2, 1>>}

UserRequest(p, batches) ==
  \/ \E u \in UserIds : \E urls \in batches : \E nets \in BatchAnswers(urls) :
       SubmitImages(p, TRUE, u, urls, nets)
  \/ \E u \in UserIds : RemainingUser(p, u)

SessionRequest(p, batches) ==
  \/ \E s \in SessionIds : \E urls \in batches : \E nets \in BatchAnswers(urls) :
       SubmitImages(p, FALSE, s, urls, nets)
  \/ \E s \in SessionIds : RemainingAnon(p, s)

Step(p) ==
  \/ FetchUrl(p)
  \/ CommitRead(p)
  \/ CommitSave(p)
  \/ HistSave(p)
  \/ RemainingAnonSave(p)
  \/ Finish(p)

\* A webhook delivery is a request of its own: it is served when slot p
\* serves no other request.
WebhookRequest(p) ==
  /\ proc[p].pc = "idle"
  /\ \E u \in UserIds : \E a \in BOOLEAN : GumroadWebhook(u, a)

\* The requests are served one after the other: a single slot takes every
\* kind of request, of either identity, over the days of the model; the
\* day may change at any point of a request.
Next ==
  \/ UserRequest(1, Batches(TRUE))
  \/ SessionRequest(1, Batches(FALSE))
  \/ WebhookRequest(1)
  \/ Step(1)
  \/ Tick

Spec == Init /\ [][Next]_vars

\* Requests of one registered user, interleaved at every awaited call,
\* within one day.
NextUser ==
  \E p \in Procs :
    \/ UserRequest(p, ConcurrentBatches)
    \/ FetchUrl(p) \/ CommitRead(p) \/ CommitSave(p) \/ HistSave(p) \/ Finish(p)

SpecUser == Init /\ [][NextUser]_vars

\* Requests of one anonymous session, interleaved at every awaited call,
\* within one day.
NextSession ==
  \E p \in Procs :
    \/ SessionRequest(p, ConcurrentBatches)
    \/ FetchUrl(p) \/ CommitRead(p) \/ CommitSave(p) \/ RemainingAnonSave(p)
    \/ Finish(p)

SpecSession == Init /\ [][NextSession]_vars

\* Requests of different identities, interleaved at every awaited call,
\* within one day: slot 1 serves the session s1, slot 2 serves the session
\* s2 and the user u1 (download.js:41, 76, 380, 403, 561: every lookup is
\* by the sessionId or the userId of its request).
PairProcs == {1, 2}

PairSessionIds == {"s1", "s2"}

KeyOf(p) == IF p = 1 THEN "s1" ELSE "s2"

InitPair ==
  /\ today = 0
  /\ sessions = [s \in PairSessionIds |-> NoSession]
  /\ users = [u \in UserIds |-> NewUser(0)]
  /\ proc = [p \in Procs |-> Idle]

NextPair ==
  \E p \in PairProcs :
    \/ /\ proc[p].pc = "idle"
       /\ \E urls \in ConcurrentBatches : \E nets \in BatchAnswers(urls) :
            SubmitImages(p, FALSE, KeyOf(p), urls, nets)
    \/ /\ proc[p].pc = "idle" /\ p = 2
       /\ \E u \in UserIds : \E urls \in ConcurrentBatches :
            \E nets \in BatchAnswers(urls) : SubmitImages(p, TRUE, u, urls, nets)
    \/ RemainingAnon(p, KeyOf(p))
    \/ FetchUrl(p) \/ CommitRead(p) \/ CommitSave(p) \/ HistSave(p)
    \/ RemainingAnonSave(p) \/ Finish(p)

SpecPair == InitPair /\ [][NextPair]_vars

\* The processing of one URL under every answer of the network: batches
\* of a single URL (a plain one, one ending in ".svg", one ending in
\* ".SVG") of an anonymous session whose record POST /remaining has saved.
FetchUrls == {1, 2, 3}

InitFetch ==
  /\ today = 0
  /\ sessions = [s \in SessionIds |->
                  [exists |-> TRUE, count |-> 0, resetDate |-> 0, lastActivity |-> 0]]
  /\ users = [u \in UserIds |-> NewUser(0)]
  /\ proc = [p \in Procs |-> Idle]

NextFetch ==
  \/ /\ proc[1].pc = "idle"
     /\ \E s \in SessionIds : \E u \in FetchUrls : \E nets \in NetsFor(<<u>>, Nets) :
          SubmitImages(1, FALSE, s, <<u>>, nets)
  \/ FetchUrl(1) \/ CommitRead(1) \/ CommitSave(1) \/ Finish(1)

SpecFetch == InitFetch /\ [][NextFetch]_vars

\* Batches of one or two URLs whose answers mix the ways a URL fails: a
\* timeout, a 404, text that is no image, an empty body, and for the .SVG
\* URL the exception of the SVG branch; next to a PNG and to SVG text.
MixedNet(direct, status, ctype, body) ==
  [direct |-> direct, status |-> status,
   relays |-> [k \in 1..NumRelays |-> FALSE], ctype |-> ctype, body |-> body]

MixedNets ==
  {MixedNet("response", 200, "image/png", [lead |-> PngLead, size |-> 90]),
   MixedNet("response", 200, "image/png", [lead |-> SvgLead, size |-> 90]),
   MixedNet("response", 200, "text/plain", [lead |-> HtmlLead, size |-> 90]),
   MixedNet("response", 200, "image/png", EmptyPayload),
   MixedNet("response", 404, "text/plain", [lead |-> HtmlLead, size |-> 90]),
   MixedNet("timeout", 0, "", EmptyPayload)}

MixedBatches ==
  {<<u>> : u \in FetchUrls} \cup {<<u, v>> : u \in FetchUrls, v \in FetchUrls}

NextMixed ==
  \/ /\ proc[1].pc = "idle"
     /\ \E s \in SessionIds : \E urls \in MixedBatches :
          \E nets \in NetsFor(urls, MixedNets) : SubmitImages(1, FALSE, s, urls, nets)
  \/ FetchUrl(1) \/ CommitRead(1) \/ CommitSave(1) \/ Finish(1)

SpecMixed == InitFetch /\ [][NextMixed]_vars

\* The way of a batch through the server and the client: batches of a
\* signed-in user (the hook sends the token and the urls), the client
\* building the ZIP from the response.
ClientBatches ==
  {UrlList(first, n) : first \in Urls, n \in 1..MaxLen} \cup {<<3>>, <<2, 2>>}

NextClient ==
  \/ /\ proc[1].pc = "idle"
     /\ \E u \in UserIds : \E urls \in ClientBatches :
          \E nets \in BatchAnswers(urls) : SubmitImages(1, TRUE, u, urls, nets)
  \/ FetchUrl(1) \/ CommitRead(1) \/ CommitSave(1) \/ HistSave(1)
  \/ ClientProcess(1)
  \/ Finish(1)

SpecClient == Init /\ [][NextClient]_vars

\* ------------------------------------------------------------- file names
\* A string is the sequence of its pieces: the characters the code looks
\* for, and runs of other characters.
MaxUrlLen == 4

UrlChars == {"/", "?", "&", "=", ".", "a", "svg"}

UrlStrings == UNION {[1..n -> UrlChars] : n \in 1..MaxUrlLen}

\* the values detectedType takes where isImage is true (download.js:213-215,
\* 272-277): a header that starts with "image/", or a type of the table
MimeTypes == {<<"image", "/", "png">>, <<"image", "/", "svg+xml">>, <<"image", "/">>}

IndexOf(s, c) ==
  IF \E k \in 1..Len(s) : s[k] = c
    THEN CHOOSE k \in 1..Len(s) : s[k] = c /\ \A j \in 1..(k - 1) : s[j] # c
    ELSE 0

\* String.prototype.split with a one-character separator
RECURSIVE Split(_, _)
Split(s, c) ==
  LET k == IndexOf(s, c)
  IN IF k = 0 THEN <<s>>
     ELSE <<SubSeq(s, 1, k - 1)>> \o Split(SubSeq(s, k + 1, Len(s)), c)

Includes(s, c) == \E k \in 1..Len(s) : s[k] = c

EndsWithSvg(s) == Len(s) >= 2 /\ s[Len(s) - 1] = "." /\ s[Len(s)] = "svg"

\* download.js:309, 312: detectedType.split("/")[1] || "jpg"
Extension(detectedType) ==
  LET parts == Split(detectedType, "/")
  IN IF Len(parts) >= 2 /\ parts[2] # <<>> THEN parts[2] ELSE <<"jpg">>

\* download.js:300-314: the name of a raster image, i the 0-based index of
\* the URL in the batch
GenerateFilename(url, i, detectedType) ==
  LET urlPath == Split(url, "?")[1]
      pathParts == Split(urlPath, "/")
      lastPart == pathParts[Len(pathParts)]
  IN IF lastPart # <<>> /\ Includes(lastPart, ".") THEN lastPart
     ELSE IF lastPart # <<>> THEN lastPart \o <<".">> \o Extension(detectedType)
     ELSE <<"image-", ToString(i + 1), ".">> \o Extension(detectedType)

\* download.js:176-177: url.split("/").pop().split("?")[0] || "image.svg"
SvgFilename(url) ==
  LET parts == Split(url, "/")
      name == Split(parts[Len(parts)], "?")[1]
  IN IF name # <<>> THEN name ELSE <<"image", ".", "svg">>

\* download.js:124, 170-206 and 300-359: the name given to a URL whose
\* response is accepted; the SVG branch names the file itself, and the
\* assignment to its const filename (download.js:178-180) throws.
NameOutcome(url, i, detectedType) ==
  IF EndsWithSvg(url)
    THEN IF EndsWithSvg(SvgFilename(url))
           THEN [success |-> TRUE, filename |-> SvgFilename(url),
                 contentType |-> <<"image", "/", "svg+xml">>]
           ELSE [success |-> FALSE, filename |-> <<>>, contentType |-> <<>>]
    ELSE [success |-> TRUE, filename |-> GenerateFilename(url, i, detectedType),
          contentType |-> detectedType]

NoName == [success |-> FALSE, filename |-> <<>>, contentType |-> <<>>]

\* One URL of a batch whose response is an image of the given type
InitName ==
  /\ today = 0
  /\ sessions = [s \in SessionIds |-> NoSession]
  /\ users = [u \in UserIds |-> NewUser(0)]
  /\ \E url \in UrlStrings : \E i \in 0..(MaxLen - 1) : \E t \in MimeTypes :
       proc = [p \in Procs |->
                 IF p = 1 THEN [pc |-> "naming", url |-> url, i |-> i,
                                detectedType |-> t, named |-> NoName]
                 ELSE Idle]

NameUrl(p) ==
  /\ proc[p].pc = "naming"
  /\ proc' = [proc EXCEPT ![p].pc = "named",
                          ![p].named = NameOutcome(proc[p].url, proc[p].i,
                                                   proc[p].detectedType)]
  /\ UNCHANGED <<today, sessions, users>>

NextName == NameUrl(1)

SpecName == InitName /\ [][NextName]_vars

\* ---------------------------------------------------------- Gumroad webhook
\* gumroad-webhook.js:16-28: the fields of the payload the handler reads.
\* refunded is absent, the string "true" (a form-encoded body) or the
\* boolean true (a JSON body); subscription_id is absent or a non-empty id;
\* seller_id is absent, the seller's id or another id; the email is absent,
\* the email of the user u1 or an email no user has.
HookStatuses ==
  {"completed", "subscription_activated", "charge", "cancelled",
   "subscription_cancelled", "failed", "refunded", "other"}

RefundedValues == {"absent", "string:true", "boolean:true"}

HookPayloads ==
  [status : HookStatuses, resource_name : {"sale", "subscription"},
   subscription_id : {"", "sub"}, refunded : RefundedValues,
   seller_id : {"", "seller", "stranger"}, email : {"", "known", "unknown"}]

\* process.env.GUMROAD_SELLER_ID: unset, or the seller's id
SellerConfigs == {"", "seller"}

\* an error thrown by User.findByEmail or by user.save
HookFaults == {"none", "load", "save"}

\* gumroad-webhook.js:75-79
isSubscriptionActivation(pl) ==
  \/ pl.status \in {"completed", "subscription_activated", "charge"}
  \/ pl.resource_name = "sale" /\ pl.subscription_id # ""
       /\ pl.refunded # "string:true"

\* gumroad-webhook.js:82-83
hasValidSubscriptionId(pl) == pl.subscription_id # ""

\* gumroad-webhook.js:84
isNotRefunded(pl) == pl.refunded \notin {"string:true", "boolean:true"}

\* gumroad-webhook.js:87-89
isSubscriptionActivationComprehensive(pl) ==
  \/ isSubscriptionActivation(pl)
  \/ pl.resource_name = "sale" /\ hasValidSubscriptionId(pl) /\ isNotRefunded(pl)

\* gumroad-webhook.js:92
hasSubscriptionIdFallback(pl) == hasValidSubscriptionId(pl) /\ isNotRefunded(pl)

\* gumroad-webhook.js:126-131
IsCancellation(pl) ==
  \/ pl.status \in {"cancelled", "subscription_cancelled", "refunded", "failed"}
  \/ pl.refunded = "string:true"

\* gumroad-webhook.js:104, 126, 143 and 159-169: the branch taken
HookAction(pl) ==
  IF isSubscriptionActivationComprehensive(pl) \/ hasSubscriptionIdFallback(pl)
    THEN "activated"
  ELSE IF IsCancellation(pl) THEN "cancelled"
  ELSE "processed"

\* gumroad-webhook.js:31-38
SellerRejected(pl, expected) ==
  expected # "" /\ pl.seller_id # "" /\ pl.seller_id # expected

\* gumroad-webhook.js:46-60 with User.js:140-142
EmailUser(email) == IF email = "known" THEN {"u1"} ELSE {}

\* SubscriptionActivated storing no expiry date
SubscriptionActivatedNoExpiry(u, now) ==
  [u EXCEPT !.status = "pro", !.expiresAt = NoDate, !.updatedAt = now]

\* gumroad-webhook.js:107-122
SubscriptionActivated(u, now) ==
  [u EXCEPT !.status = "pro", !.expiresAt = now + MonthDays, !.updatedAt = now]

\* gumroad-webhook.js:134-141
SubscriptionCancelled(u, now) ==
  [u EXCEPT !.status = "free", !.expiresAt = NoDate, !.updatedAt = now]

\* the answers of the handler: gumroad-webhook.js:35-37, 49, 57-59, 159-169
\* and 173-176
HookAnswer(status, body) == [status |-> status, body |-> body]

\* HookOutcome answering an error of the database with 500
HookOutcomeFailsOnError(pl, expected, fault) ==
  IF SellerRejected(pl, expected) THEN HookAnswer(200, "ignored")
  ELSE IF pl.email = "" THEN HookAnswer(200, "ping")
  ELSE IF fault = "load" THEN HookAnswer(500, "error")
  ELSE IF EmailUser(pl.email) = {} THEN HookAnswer(200, "no_user")
  ELSE IF fault = "save" /\ HookAction(pl) # "processed"
    THEN HookAnswer(500, "error")
  ELSE HookAnswer(200, HookAction(pl))

\* gumroad-webhook.js:30-60 and 158-177: the early answers, the answer
\* after the branch taken, and the answer of the catch block
HookOutcome(pl, expected, fault) ==
  IF SellerRejected(pl, expected) THEN HookAnswer(200, "ignored")
  ELSE IF pl.email = "" THEN HookAnswer(200, "ping")
  ELSE IF fault = "load" THEN HookAnswer(200, "error")
  ELSE IF EmailUser(pl.email) = {} THEN HookAnswer(200, "no_user")
  ELSE IF fault = "save" /\ HookAction(pl) # "processed"
    THEN HookAnswer(200, "error")
  ELSE HookAnswer(200, HookAction(pl))

\* gumroad-webhook.js:7-178: one delivery, from the payload to the answer.
\* The slot keeps the payload, the configuration, the day, the users as
\* they were and the answer.
WebhookPost(p, pl, expected, fault) ==
  /\ proc[p].pc = "idle"
  /\ LET out == HookOutcome(pl, expected, fault)
         target == EmailUser(pl.email)
     IN /\ users' = [u \in DOMAIN users |->
                       IF u \in target /\ out.body = "activated"
                         THEN SubscriptionActivated(users[u], today)
                       ELSE IF u \in target /\ out.body = "cancelled"
                         THEN SubscriptionCancelled(users[u], today)
                       ELSE users[u]]
        /\ proc' = [proc EXCEPT ![p] =
                      [pc |-> "hooked", payload |-> pl, expected |-> expected,
                       fault |-> fault, day |-> today, before |-> users,
                       resp |-> out]]
  /\ UNCHANGED <<today, sessions>>

HookFinish(p) ==
  /\ proc[p].pc = "hooked"
  /\ proc' = [proc EXCEPT ![p] = Idle]
  /\ UNCHANGED <<today, sessions, users>>

\* the batch of a user that fills the per-request cap
HookBatches == {UrlList(1, MaxUrlsPerRequest(TRUE))}

\* Webhook deliveries and the requests of the user they name, one after
\* the other, over the days of the model.
NextHook ==
  \/ /\ proc[1].pc = "idle"
     /\ \E pl \in HookPayloads : \E expected \in SellerConfigs :
          \E fault \in HookFaults : WebhookPost(1, pl, expected, fault)
  \/ HookFinish(1)
  \/ \E u \in UserIds : RemainingUser(1, u)
  \/ /\ proc[1].pc = "idle"
     /\ \E u \in UserIds : \E urls \in HookBatches :
          \E nets \in BatchAnswers(urls) : SubmitImages(1, TRUE, u, urls, nets)
  \/ FetchUrl(1) \/ CommitRead(1) \/ CommitSave(1) \/ HistSave(1) \/ Finish(1)
  \/ Tick

SpecHook == Init /\ [][NextHook]_vars

\* --------------------------------------------------------- the limit check
\* The records a check can meet.  A user document holds any status of the
\* schema's enum with or without an expiry (User.js:55-63) and any count of
\* the day or of an earlier day; a session document holds a count that two
\* concurrent batches may have taken above the limit.
UserRecords(now) ==
  [count : 0..MaxCount, lastReset : 0..now, status : {"free", "pro"},
   expiresAt : {NoDate} \cup 0..(MaxDay + MonthDays), updatedAt : {now}]

SessionRecords(now) ==
  [exists : {TRUE}, count : 0..(AnonymousLimit + 2), resetDate : 0..now,
   lastActivity : {now}]

InitLimit ==
  /\ today \in 0..MaxDay
  /\ proc = [p \in Procs |-> Idle]
  /\ \/ /\ users \in [UserIds -> UserRecords(today)]
        /\ sessions = [s \in SessionIds |-> NoSession]
     \/ /\ users = [u \in UserIds |-> NewUser(0)]
        /\ sessions \in [SessionIds -> SessionRecords(today)]

\* The requests that run the check, one after the other, within the day
NextLimit ==
  \/ /\ proc[1].pc = "idle"
     /\ \E u \in UserIds : \E urls \in Batches(TRUE) :
          \E nets \in BatchAnswers(urls) : SubmitImages(1, TRUE, u, urls, nets)
  \/ /\ proc[1].pc = "idle"
     /\ \E s \in SessionIds : \E urls \in Batches(FALSE) :
          \E nets \in BatchAnswers(urls) : SubmitImages(1, FALSE, s, urls, nets)
  \/ \E u \in UserIds : RemainingUser(1, u)
  \/ \E s \in SessionIds : RemainingAnon(1, s)
  \/ Step(1)

SpecLimit == InitLimit /\ [][NextLimit]_vars

\* ------------------------------------------------------ download history
MaxAppends == 3

\* a history of n one-URL batches saved before the behaviour starts
OldHistory(n) ==
  [k \in 1..n |-> [id |-> k - n, urls |-> <<1>>, successCount |-> 1,
                   failedCount |-> 0, totalCount |-> 1]]

HistorySizes == {0, HistoryCap - 1, HistoryCap}

\* User.js:74-84: the user document with its history
InitHistory ==
  /\ today = 0
  /\ sessions = [s \in SessionIds |-> NoSession]
  /\ \E n \in HistorySizes :
       users = [u \in UserIds |->
                  [count |-> 0, lastReset |-> 0, status |-> "free",
                   expiresAt |-> NoDate, updatedAt |-> 0,
                   downloadHistory |-> OldHistory(n)]]
  /\ proc = [p \in Procs |-> Idle]

\* download.js:463-479: GET /history answers the stored history
GetHistory(p, u) ==
  /\ proc[p].pc = "idle"
  /\ proc' = [proc EXCEPT ![p] =
                [pc |-> "answered", auth |-> TRUE, key |-> u,
                 resp |-> [status |-> 200, kind |-> "history",
                           history |-> users[u].downloadHistory]]]
  /\ UNCHANGED <<today, sessions, users>>

\* download.js:482-499: DELETE /history empties the history of the loaded
\* document and answers; the document is not saved.
ClearHistory(p, u) ==
  /\ proc[p].pc = "idle"
  /\ proc' = [proc EXCEPT ![p] =
                [pc |-> "answered", auth |-> TRUE, key |-> u,
                 resp |-> [status |-> 200, kind |-> "cleared",
                           history |-> <<>>]]]
  /\ UNCHANGED <<today, sessions, users>>

HistoryFinish(p) ==
  /\ proc[p].pc = "answered"
  /\ proc' = [proc EXCEPT ![p] = Idle]
  /\ UNCHANGED <<today, sessions, users>>

\* The batches and the history requests of one user, one after the other
NextHistory ==
  \/ /\ proc[1].pc = "idle"
     /\ \E u \in UserIds :
          /\ NextHistoryId(users[u].downloadHistory) <= MaxAppends
          /\ \E urls \in ConcurrentBatches : \E nets \in BatchAnswers(urls) :
               SubmitImages(1, TRUE, u, urls, nets)
  \/ \E u \in UserIds : GetHistory(1, u)
  \/ \E u \in UserIds : ClearHistory(1, u)
  \/ HistoryFinish(1)
  \/ FetchUrl(1) \/ CommitRead(1) \/ CommitSave(1) \/ HistSave(1) \/ Finish(1)

SpecHistory == InitHistory /\ [][NextHistory]_vars

\* ------------------------------------------------------ request validation
\* download.js:12 and 66: the body of POST /images.  urls is missing (or
\* another falsy value), a non-empty string, an object that is no array, or
\* an array; sessionId is absent or the id of a session.
UrlsKinds == {"missing", "string", "object", "array"}

Bodies ==
  [urlsKind : UrlsKinds \ {"array"}, urls : {<<>>}, sessionId : {""} \cup SessionIds]
    \cup [urlsKind : {"array"}, urls : Batches(FALSE), sessionId : {""} \cup SessionIds]

\* download.js:14: !urls || !Array.isArray(urls) || urls.length === 0
InvalidUrls(body) == body.urlsKind # "array" \/ Len(body.urls) = 0

\* download.js:14-18, 27-38 and 68-72: the answer to a request that does
\* not reach the quota check of a session
InvalidKind(auth, body) ==
  IF InvalidUrls(body) THEN "bad_request"
  ELSE IF Len(body.urls) > MaxUrlsPerRequest(auth) THEN "too_many"
  ELSE "session_required"

\* InvalidAnswer of a handler that looks for the session first
InvalidAnswerAfterLookup(auth, body) ==
  [pc |-> "done", auth |-> auth, key |-> "", urls |-> <<>>, nets |-> <<>>,
   i |-> 0, results |-> <<>>, body |-> body,
   resp |-> [NoResp EXCEPT !.status = IF body.sessionId = "" THEN 500 ELSE 400,
                           !.kind = InvalidKind(auth, body)]]

InvalidAnswer(auth, body) ==
  [pc |-> "done", auth |-> auth, key |-> "", urls |-> <<>>, nets |-> <<>>,
   i |-> 0, results |-> <<>>, body |-> body,
   resp |-> [NoResp EXCEPT !.status = 400, !.kind = InvalidKind(auth, body)]]

\* download.js:12-18 and 64-73: POST /images with a body whose urls is no
\* non-empty array, or without sessionId and without a signed-in user; the
\* handler returns before it reads or writes a document.
PostImagesInvalid(p, auth, body) ==
  /\ proc[p].pc = "idle"
  /\ InvalidUrls(body) \/ (~auth /\ body.sessionId = "")
  /\ proc' = [proc EXCEPT ![p] = InvalidAnswer(auth, body)]
  /\ UNCHANGED <<today, sessions, users>>

\* Requests of every shape, of a session and of a user, one after the other
NextEntry ==
  \/ /\ proc[1].pc = "idle"
     /\ \E auth \in BOOLEAN : \E body \in Bodies : PostImagesInvalid(1, auth, body)
  \/ UserRequest(1, ConcurrentBatches)
  \/ SessionRequest(1, ConcurrentBatches)
  \/ Step(1)

SpecEntry == Init /\ [][NextEntry]_vars

\* ------------------------------------------------------------------
\* Client quota view (frontend hook useUserData).  The hook's state lives in
\* slot 1: the authentication flag of the AuthContext, the anonymous session
\* id, remainingDownloads (null until a quota status arrived), loading, the
\* quota requests still awaiting their response (each with the values its
\* closure captured) and the dependencies the mount/refresh effect last ran
\* with.
MaxFetches == 2

NoSessionId == ""

NoQuota ==
  [loaded |-> FALSE, current |-> 0, remaining |-> 0, limit |-> 0,
   error |-> FALSE]

Quota(current, remaining, limit, error) ==
  [loaded |-> TRUE, current |-> current, remaining |-> remaining,
   limit |-> limit, error |-> error]

\* The catch branch of fetchRemainingDownloads.
FallbackData(isAuthenticated) ==
  Quota(0, IF isAuthenticated THEN 10 ELSE 5,
        IF isAuthenticated THEN 10 ELSE 5, TRUE)

\* canDownload(urlCount) of the hook; limit "Unlimited" is Infinity here.
canDownload(remainingDownloads, urlCount) ==
  IF ~remainingDownloads.loaded THEN FALSE
  ELSE IF remainingDownloads.limit = Infinity THEN TRUE
  ELSE remainingDownloads.remaining >= urlCount

isProUser(remainingDownloads) ==
  remainingDownloads.loaded /\ remainingDownloads.limit = Infinity

\* The bodies the two /remaining routes answer with status 200.
QuotaAnswers(isAuthenticated) ==
  IF isAuthenticated
    THEN {Quota(c, RemainingOf(l, c), l, FALSE) :
            c \in {0, RegisteredLimit}, l \in {RegisteredLimit, Infinity}}
    ELSE {Quota(c, Max(0, AnonymousLimit - c), AnonymousLimit, FALSE) :
            c \in {0, AnonymousLimit}}

Unmounted == [isAuthenticated |-> FALSE, anonymousSessionId |-> "unmounted"]

ViewDeps(v) ==
  [isAuthenticated |-> v.isAuthenticated,
   anonymousSessionId |-> v.anonymousSessionId]

InitView ==
  /\ today = 0
  /\ sessions = [s \in SessionIds |-> NoSession]
  /\ users = [u \in UserIds |-> NewUser(0)]
  /\ \E a \in BOOLEAN :
       proc = [p \in Procs |->
                 IF p = 1
                   THEN [pc |-> "view", isAuthenticated |-> a,
                         anonymousSessionId |-> NoSessionId,
                         remainingDownloads |-> NoQuota, loading |-> FALSE,
                         fetches |-> <<>>, deps |-> Unmounted]
                   ELSE Idle]

\* The synchronous head of fetchRemainingDownloads: loading on, view reset,
\* request sent with the values of the closure.
StartFetch(v, closure) ==
  [v EXCEPT !.loading = TRUE, !.remainingDownloads = NoQuota,
            !.fetches = Append(v.fetches, closure)]

\* The effects after a render whose dependencies changed: the first stores
\* the anonymous session id when the authentication flag changed (or on
\* mount) and the user is anonymous; the second calls
\* fetchRemainingDownloads of the same render.
RunEffects ==
  LET v == proc[1] IN
  /\ v.pc = "view"
  /\ v.deps # ViewDeps(v)
  /\ Len(v.fetches) < MaxFetches
  /\ LET authChanged == \/ v.deps = Unmounted
                        \/ v.deps.isAuthenticated # v.isAuthenticated
         w == StartFetch(v, ViewDeps(v))
     IN proc' = [proc EXCEPT ![1] =
                   [w EXCEPT !.deps = ViewDeps(v),
                             !.anonymousSessionId =
                               IF authChanged /\ ~v.isAuthenticated
                                 THEN "s1" ELSE v.anonymousSessionId]]
  /\ UNCHANGED <<today, sessions, users>>

\* refreshUserData: a manual refresh with the closure of the current render.
RefreshUserData ==
  LET v == proc[1] IN
  /\ v.pc = "view"
  /\ v.deps = ViewDeps(v)
  /\ Len(v.fetches) < MaxFetches
  /\ proc' = [proc EXCEPT ![1] = StartFetch(v, ViewDeps(v))]
  /\ UNCHANGED <<today, sessions, users>>

RemoveAt(s, i) == SubSeq(s, 1, i - 1) \o SubSeq(s, i + 1, Len(s))

\* A response with status 200 arrives; the anonymous route answers 400 to
\* a request without session id, so such a request cannot succeed.
FetchSucceeds ==
  LET v == proc[1] IN
  /\ v.pc = "view"
  /\ \E i \in 1..Len(v.fetches) :
       /\ v.fetches[i].isAuthenticated
            \/ v.fetches[i].anonymousSessionId # NoSessionId
       /\ \E data \in QuotaAnswers(v.fetches[i].isAuthenticated) :
            proc' = [proc EXCEPT ![1] =
                       [v EXCEPT !.remainingDownloads = data,
                                 !.loading = FALSE,
                                 !.fetches = RemoveAt(v.fetches, i)]]
  /\ UNCHANGED <<today, sessions, users>>

\* The request rejects (error status or no response): the catch branch
\* stores the fallback computed from the closure's authentication flag.
FetchFails ==
  LET v == proc[1] IN
  /\ v.pc = "view"
  /\ \E i \in 1..Len(v.fetches) :
       proc' = [proc EXCEPT ![1] =
                  [v EXCEPT !.remainingDownloads =
                              FallbackData(v.fetches[i].isAuthenticated),
                            !.loading = FALSE,
                            !.fetches = RemoveAt(v.fetches, i)]]
  /\ UNCHANGED <<today, sessions, users>>

\* Login or logout in the AuthContext.
AuthChange ==
  LET v == proc[1] IN
  /\ v.pc = "view"
  /\ v.deps = ViewDeps(v)
  /\ proc' = [proc EXCEPT ![1] =
                [v EXCEPT !.isAuthenticated = ~v.isAuthenticated]]
  /\ UNCHANGED <<today, sessions, users>>

NextView ==
  \/ RunEffects
  \/ RefreshUserData
  \/ FetchSucceeds
  \/ FetchFails
  \/ AuthChange

SpecView == InitView /\ [][NextView]_vars

\* ------------------------------------------------------------------
\* Client download manager (frontend hook useDownloadManager).  The hook's
\* state lives in slot 1: isDownloading, downloadProgress (pairs of URL
\* index and percentage, one per index), error, the URL list of the running
\* call, what the call has met so far (path) and how its promise settled.
Percentages == {50, 100}

\* What the POST /images request can settle with: 200 with downloads, 200
\* with an empty downloads list (every URL failed), the error statuses of
\* the route (403 once with and once without a JSON body), no response.
PostOutcomes ==
  {"downloads", "noDownloads", "400", "403", "403NoBody", "500", "noResponse"}

\* What processImageDownloads can settle with: a result with success true,
\* a result with success false, or a rejection.
ZipOutcomes == {"success", "failure", "exception"}

ManagerIdle ==
  [pc |-> "ready", isDownloading |-> FALSE, downloadProgress |-> {},
   error |-> "", urls |-> <<>>, path |-> "", settled |-> "none"]

InitManager ==
  /\ today = 0
  /\ sessions = [s \in SessionIds |-> NoSession]
  /\ users = [u \in UserIds |-> NewUser(0)]
  /\ proc = [p \in Procs |-> IF p = 1 THEN ManagerIdle ELSE Idle]

\* downloadViaBackend up to its first await: an empty list reports the
\* error and returns; otherwise the three state resets and the POST.
DownloadViaBackend(urls) ==
  LET m == proc[1] IN
  /\ m.pc = "ready"
  /\ proc' = [proc EXCEPT ![1] =
       IF Len(urls) = 0
         THEN [m EXCEPT !.error = "Please enter at least one URL",
                        !.urls = urls, !.path = "empty",
                        !.settled = "resolved"]
         ELSE [m EXCEPT !.pc = "posting", !.isDownloading = TRUE,
                        !.downloadProgress = {}, !.error = "",
                        !.urls = urls, !.path = "", !.settled = "none"]]
  /\ UNCHANGED <<today, sessions, users>>

\* updateProgress(index, progress) of the hook.
UpdateProgress(index, progress) ==
  LET m == proc[1] IN
  /\ m.pc \in {"posting", "processing"}
  /\ index \in 1..Len(m.urls)
  /\ proc' = [proc EXCEPT ![1] =
       [m EXCEPT !.downloadProgress =
          {e \in m.downloadProgress : e[1] # index}
            \cup {<<index, progress>>}]]
  /\ UNCHANGED <<today, sessions, users>>

\* The awaited POST settles: with downloads the ZIP processing starts,
\* an empty downloads list throws, a rejection enters the catch block.
PostSettles(outcome) ==
  LET m == proc[1] IN
  /\ m.pc = "posting"
  /\ proc' = [proc EXCEPT ![1] =
       [m EXCEPT !.pc = IF outcome = "downloads" THEN "processing"
                        ELSE "catch",
                 !.path = outcome]]
  /\ UNCHANGED <<today, sessions, users>>

\* The awaited processImageDownloads settles: success leaves the try block
\* by its return, anything else throws into the catch block.
ZipSettles(outcome) ==
  LET m == proc[1] IN
  /\ m.pc = "processing"
  /\ proc' = [proc EXCEPT ![1] =
       [m EXCEPT !.pc = IF outcome = "success" THEN "finally" ELSE "catch",
                 !.path = outcome,
                 !.settled = IF outcome = "success" THEN "resolved"
                             ELSE "none"]]
  /\ UNCHANGED <<today, sessions, users>>

\* The catch block as if the two resets stood at the end of the try block:
\* a failed call returns to the caller without them.
CatchBlockWithoutFinally(m) ==
  [m EXCEPT !.pc = "ready", !.error = m.path, !.settled = "rejected"]

\* The catch block: setError, the toast chosen by status (reading
\* error.response.data.error throws when a 403 carries no body), then the
\* rethrow; either way control passes to the finally block.
CatchBlock(m) ==
  [m EXCEPT !.pc = "finally", !.error = m.path, !.settled = "rejected"]

Catch ==
  /\ proc[1].pc = "catch"
  /\ proc' = [proc EXCEPT ![1] = CatchBlock(proc[1])]
  /\ UNCHANGED <<today, sessions, users>>

\* The finally block.
Finally ==
  LET m == proc[1] IN
  /\ m.pc = "finally"
  /\ proc' = [proc EXCEPT ![1] =
       [m EXCEPT !.pc = "ready", !.isDownloading = FALSE,
                 !.downloadProgress = {}]]
  /\ UNCHANGED <<today, sessions, users>>

ManagerBatches == {UrlList(first, n) : first \in Urls, n \in 0..MaxLen}

ManagerCall == \E urls \in ManagerBatches : DownloadViaBackend(urls)

ManagerProgress ==
  \E index \in 1..MaxLen : \E progress \in Percentages :
    UpdateProgress(index, progress)

ManagerSettles ==
  \/ \E outcome \in PostOutcomes : PostSettles(outcome)
  \/ \E outcome \in ZipOutcomes : ZipSettles(outcome)
  \/ Catch
  \/ Finally

NextManager ==
  \/ ManagerCall
  \/ ManagerProgress
  \/ ManagerSettles

\* A pending request settles (response, error or the transport's timeout)
\* and the continuation of an async function runs once its promise settled.
SpecManager ==
  InitManager /\ [][NextManager]_vars /\ WF_vars(ManagerSettles)

\* ------------------------------------------------------------------
\* Registration by e-mail code (auth routes).  In this specification the
\* PendingUser collection is held in sessions (one document per pending id,
\* ids are never issued twice), the User collection in users (the set of
\* accounts, each with the pending id it was created from) and the clock in
\* today, counted in code lifetimes of 15 minutes.
MaxClock == 2
CodeLife == 1

\* Two verify requests run concurrently, in the slots 1 and 2.
VerifySlots == {1, 2}

PendingIds == {1, 2}
Codes == {"c1", "c2"}
Email == "e1"

NoPending ==
  [exists |-> FALSE, issued |-> FALSE, verificationCode |-> "",
   verificationCodeExpiresAt |-> 0, createdAt |-> 0]

VerifyIdle ==
  [pc |-> "idle", pendingUserId |-> 0, code |-> "", pendingUser |-> NoPending,
   now |-> 0, status |-> 0, error |-> ""]

InitVerify ==
  /\ today = 0
  /\ sessions = [id \in PendingIds |-> NoPending]
  /\ users = {}
  /\ proc = [p \in Procs |-> VerifyIdle]

\* POST /register: refused while an account or a pending document with the
\* e-mail exists; otherwise a pending document with a fresh code that
\* expires one code lifetime later.
Register(id, code) ==
  /\ users = {}
  /\ \A i \in PendingIds : ~sessions[i].exists
  /\ ~sessions[id].issued
  /\ \A i \in PendingIds : i < id => sessions[i].issued
  /\ sessions' = [sessions EXCEPT ![id] =
       [exists |-> TRUE, issued |-> TRUE, verificationCode |-> code,
        verificationCodeExpiresAt |-> today + CodeLife, createdAt |-> today]]
  /\ UNCHANGED <<today, users, proc>>

VerifyAnswer(q, status, error) ==
  [q EXCEPT !.pc = "done", !.status = status, !.error = error]

\* The decisions without the expiry check.
VerifyDecisionIgnoresExpiry(q) ==
  IF ~q.pendingUser.exists
    THEN VerifyAnswer(q, 404, "Pending user not found or verification expired")
  ELSE IF q.pendingUser.verificationCode # q.code
    THEN VerifyAnswer(q, 400, "Invalid verification code")
  ELSE [q EXCEPT !.pc = "create"]

\* The decisions of POST /verify once findById answered.
VerifyDecision(q) ==
  IF ~q.pendingUser.exists
    THEN VerifyAnswer(q, 404, "Pending user not found or verification expired")
  ELSE IF q.now > q.pendingUser.verificationCodeExpiresAt
    THEN [q EXCEPT !.pc = "expired"]
  ELSE IF q.pendingUser.verificationCode # q.code
    THEN VerifyAnswer(q, 400, "Invalid verification code")
  ELSE [q EXCEPT !.pc = "create"]

\* POST /verify up to its second await: findById and the checks.
VerifyRead(p, id, code) ==
  /\ proc[p].pc = "idle"
  /\ proc' = [proc EXCEPT ![p] =
       VerifyDecision([VerifyIdle EXCEPT !.pendingUserId = id, !.code = code,
                                         !.pendingUser = sessions[id],
                                         !.now = today])]
  /\ UNCHANGED <<today, sessions, users>>

\* The clean-up of an expired pending document and the 400 answer.
VerifyExpired(p) ==
  /\ proc[p].pc = "expired"
  /\ sessions' = [sessions EXCEPT ![proc[p].pendingUserId] =
                    [NoPending EXCEPT !.issued = TRUE]]
  /\ proc' = [proc EXCEPT ![p] =
       VerifyAnswer(proc[p], 400,
                    "Verification code expired. Please register again.")]
  /\ UNCHANGED <<today, users>>

\* User.create: the unique index on the e-mail makes a second create throw,
\* which the catch block answers with 500.
VerifyCreate(p) ==
  /\ proc[p].pc = "create"
  /\ IF \E a \in users : a.email = Email
       THEN /\ proc' = [proc EXCEPT ![p] =
                 VerifyAnswer(proc[p], 500, "Failed to verify email")]
            /\ UNCHANGED users
       ELSE /\ users' = users \cup
                 {[email |-> Email, from |-> proc[p].pendingUserId]}
            /\ proc' = [proc EXCEPT ![p].pc = "delete"]
  /\ UNCHANGED <<today, sessions>>

\* findByIdAndDelete after the create, then the 200 answer with the token.
VerifyDelete(p) ==
  /\ proc[p].pc = "delete"
  /\ sessions' = [sessions EXCEPT ![proc[p].pendingUserId] =
                    [NoPending EXCEPT !.issued = TRUE]]
  /\ proc' = [proc EXCEPT ![p] =
       VerifyAnswer(proc[p], 200, "")]
  /\ UNCHANGED <<today, users>>

VerifyFinish(p) ==
  /\ proc[p].pc = "done"
  /\ proc' = [proc EXCEPT ![p] = VerifyIdle]
  /\ UNCHANGED <<today, sessions, users>>

\* POST /resend-code: a pending document whose code expired gets a new code
\* and a new expiry; an unexpired one keeps its code.
ResendCode(code) ==
  /\ \E id \in PendingIds :
       /\ sessions[id].exists
       /\ today > sessions[id].verificationCodeExpiresAt
       /\ sessions' = [sessions EXCEPT
            ![id].verificationCode = code,
            ![id].verificationCodeExpiresAt = today + CodeLife]
  /\ UNCHANGED <<today, users, proc>>

\* The TTL index on createdAt removes a pending document once it is one
\* code lifetime old.
TtlExpire(id) ==
  /\ sessions[id].exists
  /\ today >= sessions[id].createdAt + CodeLife
  /\ sessions' = [sessions EXCEPT ![id] = [NoPending EXCEPT !.issued = TRUE]]
  /\ UNCHANGED <<today, users, proc>>

ClockTick ==
  /\ today < MaxClock
  /\ today' = today + 1
  /\ UNCHANGED <<sessions, users, proc>>

VerifyStep(p) ==
  \/ \E id \in PendingIds : \E code \in Codes : VerifyRead(p, id, code)
  \/ VerifyExpired(p)
  \/ VerifyCreate(p)
  \/ VerifyDelete(p)
  \/ VerifyFinish(p)

NextVerify ==
  \/ \E id \in PendingIds : \E code \in Codes : Register(id, code)
  \/ \E p \in VerifySlots : VerifyStep(p)
  \/ \E code \in Codes : ResendCode(code)
  \/ \E id \in PendingIds : TtlExpire(id)
  \/ ClockTick

SpecVerify == InitVerify /\ [][NextVerify]_vars

\* ------------------------------------------------------------------ claims
\* What the claims speak of, read off the state.
Completed200(q) == q.pc = "done" /\ q.resp.kind = "completed"

StoredCount(q) ==
  IF q.auth THEN users[q.key].count
  ELSE IF sessions[q.key].exists THEN sessions[q.key].count ELSE 0

StoredWindow(q) ==
  IF q.auth THEN users[q.key].lastReset ELSE sessions[q.key].resetDate

RECURSIVE SumSuccess(_)
SumSuccess(P) ==
  IF P = {} THEN 0
  ELSE LET p == CHOOSE x \in P : TRUE
       IN CountSuccess(proc[p].results) + SumSuccess(P \ {p})

\* The limit schedule of the claims: 5, 10, unbounded
TierLimit(q, now) ==
  IF ~q.auth THEN 5 ELSE IF IsProActive(users[q.key], now) THEN Infinity ELSE 10

\* The per-request caps of the claims: 5, 10, 10
TierCap(q) == IF q.auth THEN 10 ELSE 5

\* C1: batches of one identity that all ran concurrently (each was checked
\* against the same stored count c0, so none was committed before another
\* was checked) leave the stored count at c0 plus the sum of their Success
\* outcomes.
C1_NoLostCommit ==
  (\A p \in Procs :
     /\ Completed200(proc[p]) /\ proc[p].seen.exists
     /\ proc[p].auth = proc[1].auth /\ proc[p].key = proc[1].key
     /\ proc[p].seen.count = proc[1].seen.count)
    => StoredCount(proc[1]) = proc[1].seen.count + SumSuccess(Procs)

\* C2: the count stored for the current day of an anonymous session never
\* exceeds 5 and that of a user without an active subscription never
\* exceeds 10.
C2_CountWithinLimit ==
  /\ \A s \in SessionIds :
       sessions[s].exists /\ sessions[s].resetDate = today
         => sessions[s].count <= 5
  /\ \A u \in UserIds :
       ~IsProActive(users[u], today) /\ users[u].lastReset = today
         => users[u].count <= 10

\* C3: when a batch that ran alone has answered, the stored count is the
\* count stored before it (0 for a session without a record) plus the
\* number of its Success outcomes.
C3_CommitEqualsSuccesses ==
  \A p \in Procs :
    Completed200(proc[p])
      => StoredCount(proc[p]) = proc[p].seen.count + CountSuccess(proc[p].results)

\* Nothing of the record the check loaded is of today: its window started
\* on an earlier day and its last save was on an earlier day.
PriorDayRecord(q) == q.seen.exists /\ q.seen.stale /\ q.seen.quiet

\* C4: the first quota check after the day has rolled over (the record it
\* loads is of an earlier day) reports current = 0 and the full tier limit
\* as remaining.
C4_CheckAfterRollover ==
  \A p \in Procs :
    LET q == proc[p]
    IN q.pc = "done" /\ q.resp.kind = "remaining" /\ PriorDayRecord(q)
          /\ q.day = today
         => /\ q.resp.current = 0
            /\ q.resp.remaining = q.resp.limit
            /\ q.resp.limit = q.seen.limit

\* C5: a batch that found the record of an earlier day and committed k
\* successes leaves dailyCount = k and the window on the current day.
C5_RolloverStored ==
  \A p \in Procs :
    LET q == proc[p]
    IN Completed200(q) /\ PriorDayRecord(q) /\ q.day = today
          /\ CountSuccess(q.results) > 0
         => /\ StoredCount(q) = CountSuccess(q.results)
            /\ StoredWindow(q) = today

\* C6: the quota check of a batch admits it exactly when current + requested
\* <= limit (5, 10, unbounded), current being 0 when the record is of an
\* earlier day or does not exist, and the stored count when the stored
\* window started today.
C6_AllowedIffWithinLimit ==
  [][\A p \in Procs :
       LET q == proc'[p]
           ruleCurrent == IF PriorDayRecord(q) \/ ~q.seen.exists THEN 0 ELSE q.seen.count
           admitted == q.pc = "fetch"
           refused == q.pc = "done" /\ q.resp.kind = "quota"
       IN proc[p].pc = "idle" /\ (admitted \/ refused)
            /\ (PriorDayRecord(q) \/ ~q.seen.exists \/ ~q.seen.stale)
            => (admitted <=> WithinLimit(ruleCurrent + Len(q.urls), TierLimit(q, today)))
    ]_vars

\* The count the check of the code works with: the stored count, or 0 for
\* a session that has no record or whose window lies on an earlier day.
CheckedCurrent(q) ==
  IF ~q.auth /\ (q.seen.stale \/ ~q.seen.exists) THEN 0 ELSE q.seen.count

\* C7: a batch whose quota check is not allowed is rejected as a whole with
\* 403, the error carries current, remaining = max(0, limit - current),
\* limit and requested, no URL is fetched, no result is produced and the
\* stored count stays what it was; a batch that is processed passed the check.
C7_QuotaRejection ==
  \A p \in Procs :
    LET q == proc[p]
    IN /\ q.pc = "done" /\ q.resp.kind = "quota"
            => /\ q.resp.status = 403
               /\ q.resp.requested = Len(q.urls)
               /\ q.resp.limit = (IF q.auth THEN 10 ELSE 5)
               /\ q.resp.current = CheckedCurrent(q)
               /\ q.resp.remaining = Max(0, q.resp.limit - q.resp.current)
               /\ q.resp.current + q.resp.requested > q.resp.limit
               /\ q.results = <<>> /\ q.nets = <<>> /\ q.i = 0
               /\ StoredCount(q) = q.seen.count
       /\ q.pc \in {"fetch", "commit", "save", "hist"} \/ Completed200(q)
            => WithinLimit(CheckedCurrent(q) + Len(q.urls), q.seen.limit)

\* C7 witness: the anonymous session at 4 of 5 that submits 2 URLs
C7_Witness ==
  \E p \in Procs :
    /\ proc[p].pc = "done" /\ proc[p].resp.kind = "quota" /\ ~proc[p].auth
    /\ proc[p].resp.current = 4 /\ proc[p].resp.requested = 2
    /\ proc[p].resp.remaining = 1

\* C8: a batch with more URLs than the cap of its tier is rejected with 400
\* naming the cap and the count received, whatever the quota says; nothing
\* is fetched and the stored count stays what it was.
C8_CapBeforeQuota ==
  \A p \in Procs :
    LET q == proc[p]
    IN q.pc # "idle" /\ Len(q.urls) > TierCap(q)
         => /\ q.pc = "done" /\ q.resp.kind = "too_many" /\ q.resp.status = 400
            /\ q.resp.maxAllowed = TierCap(q)
            /\ q.resp.requested = Len(q.urls)
            /\ q.results = <<>> /\ q.nets = <<>> /\ q.i = 0
            /\ StoredCount(q) = q.seen.count

\* C8 witness: a subscribed user (no daily limit) is refused 11 URLs
C8_Witness ==
  \E p \in Procs :
    /\ proc[p].pc = "done" /\ proc[p].resp.kind = "too_many" /\ proc[p].auth
    /\ proc[p].seen.limit = Infinity
    /\ proc[p].resp.requested = 11 /\ proc[p].resp.maxAllowed = 10

\* C9: the response of an admitted batch has successful + failed = total =
\* len(results) = len(urls), and results[i].url = urls[i] for every i.
C9_OneResultPerUrl ==
  \A p \in Procs :
    LET q == proc[p]
    IN Completed200(q)
         => /\ q.resp.successful + q.resp.failed = q.resp.total
            /\ q.resp.total = Len(q.results)
            /\ Len(q.results) = Len(q.urls)
            /\ \A k \in 1..Len(q.urls) : q.results[k].url = q.urls[k]

\* C9 witness: two URLs, the first delivered and the second failed
C9_Witness ==
  \E p \in Procs :
    /\ Completed200(proc[p]) /\ proc[p].urls = <<2, 1>>
    /\ proc[p].resp.successful = 1 /\ proc[p].resp.failed = 1
    /\ proc[p].results[1].success /\ ~proc[p].results[2].success

\* C10: a URL is reported as failed to fetch only when the direct attempt
\* and every relay have failed; a URL whose direct fetch times out and whose
\* first relay delivers an image is a Success.
C10_RelayFallback ==
  \A p \in Procs :
    \A k \in 1..Len(proc[p].results) :
      LET r == proc[p].results[k]
          net == proc[p].nets[k]
      IN /\ r.error = "Failed to download image" /\ ~IsSvgUrl(proc[p].urls[k])
              => /\ ~Responded(net)
                 /\ \A j \in 1..NumRelays : ~net.relays[j]
         /\ net.direct = "timeout" /\ net.relays[1] /\ net.ctype = "image/png"
              /\ net.body = [lead |-> PngLead, size |-> 90]
              /\ ~IsSvgUrl(proc[p].urls[k])
              => r.success

\* The format each payload of the model is in, by its leading bytes; "" for
\* the payloads that are no raster image.
TableType(lead) ==
  IF lead = PngLead THEN "image/png"
  ELSE IF lead = JpegLead THEN "image/jpeg"
  ELSE IF lead \in {Gif87Lead, Gif89Lead} THEN "image/gif"
  ELSE IF lead = BmpLead THEN "image/bmp"
  ELSE IF lead = WebpLead THEN "image/webp"
  ELSE IF lead \in {TiffLeLead, TiffBeLead} THEN "image/tiff"
  ELSE ""

\* The k-th URL of request q is a plain URL whose direct GET got a response
\* of status 200.
Plain200(q, k) ==
  /\ ~IsSvgUrl(q.urls[k])
  /\ q.nets[k].direct = "response" /\ q.nets[k].status = 200

\* C11: the response of a direct GET goes on to classification exactly when
\* its terminal status lies in [200,400); a 4xx or 5xx status is a failed
\* fetch.
C11_StatusInRange ==
  \A p \in Procs :
    \A k \in 1..Len(proc[p].results) :
      LET r == proc[p].results[k]
          net == proc[p].nets[k]
          classified == r.error \notin {"HTTP status", "Failed to download image"}
      IN net.direct = "response" /\ ~IsSvgUrl(proc[p].urls[k])
           => (classified <=> (net.status >= 200 /\ net.status < 400))

\* C12: a payload that begins with the PNG signature resolves to image/png
\* whatever content type the response declares.
C12_SignatureWins ==
  \A p \in Procs :
    \A k \in 1..Len(proc[p].results) :
      LET r == proc[p].results[k]
          net == proc[p].nets[k]
      IN Plain200(proc[p], k) /\ net.body = [lead |-> PngLead, size |-> 90]
           => r.success /\ r.contentType = "image/png"

\* C13: a payload without a signature is accepted with the declared type
\* when that type starts with image/ and is rejected as not an image
\* otherwise; an empty payload is a Failed outcome that charges nothing.
C13_DeclaredTypeFallback ==
  \A p \in Procs :
    \A k \in 1..Len(proc[p].results) :
      LET q == proc[p]
          r == q.results[k]
          net == q.nets[k]
      IN Plain200(q, k)
           => /\ net.body.lead = HtmlLead /\ net.ctype \in ImageTypes
                   => r.success /\ r.contentType = net.ctype
              /\ net.body.lead = HtmlLead /\ net.ctype \notin ImageTypes
                   => ~r.success /\ r.error = "Not an image file"
              /\ net.body = EmptyPayload
                   => /\ ~r.success
                      /\ Completed200(q) => StoredCount(q) = q.seen.count

\* C14: with a declared type that gives no image/ hint, each format of the
\* signature table is recognised from its leading bytes.
C14_SignatureTable ==
  \A p \in Procs :
    \A k \in 1..Len(proc[p].results) :
      LET r == proc[p].results[k]
          net == proc[p].nets[k]
      IN Plain200(proc[p], k) /\ net.ctype \in {"text/plain", ""}
            /\ TableType(net.body.lead) # "" /\ net.body.size = 90
           => r.success /\ r.contentType = TableType(net.body.lead)

\* The number of successes among the first k results: the position in
\* downloads of the k-th result when it is a success.
RECURSIVE SuccessesUpTo(_, _)
SuccessesUpTo(rs, k) ==
  IF k = 0 THEN 0
  ELSE SuccessesUpTo(rs, k - 1) + (IF rs[k].success THEN 1 ELSE 0)

\* C15: a URL ending in .svg in any letter case, answered with <svg>
\* markup, is a Success, and the file the client delivers for it is a PNG
\* named .png.
C15_SvgRasterized ==
  \A p \in Procs :
    LET q == proc[p]
    IN \A k \in 1..Len(q.results) :
         IsSvgUrl(q.urls[k]) /\ q.nets[k].direct = "response"
           /\ q.nets[k].status = 200 /\ IncludesSvg(q.nets[k].body)
           => /\ q.results[k].success
              /\ q.pc = "saved" /\ q.conv[SuccessesUpTo(q.results, k)] = "png"
                   => LET f == q.zip[SuccessesUpTo(q.results, k)]
                      IN f.ext = "png" /\ f.bytes = "png"

\* C16: when the conversion of an SVG download fails, the ZIP still holds a
\* file for it with the original SVG bytes, every other download of the
\* batch has its file, and the client ends with the ZIP saved.
C16_RasterFallback ==
  \A p \in Procs :
    LET q == proc[p]
        downloads == q.downloads
    IN q.pc \in {"saved", "clientError"} /\ Len(downloads) > 0
         => /\ q.pc = "saved"
            /\ Len(q.zip) = Len(downloads)
            /\ \A k \in 1..Len(downloads) :
                 /\ q.zip[k].url = downloads[k].url
                 /\ IsSvgDownload(downloads[k]) /\ q.conv[k] # "png"
                      => q.zip[k].ext = "svg" /\ q.zip[k].bytes = "svg"

\* C16 witness: two downloads, the SVG one not converted, both in the ZIP
C16_Witness ==
  \E p \in Procs :
    /\ proc[p].pc = "saved" /\ proc[p].urls = <<2, 1>>
    /\ proc[p].conv = <<"loadError", "png">>
    /\ Len(proc[p].zip) = 2
    /\ proc[p].zip[1].bytes = "svg" /\ proc[p].zip[2].bytes = "original"

\* C17: in an admitted batch every URL gets its own outcome: a URL that is
\* answered with a PNG is a Success and a URL whose fetch or content fails
\* is Failed, whatever happens to the other URLs; the batch answers 200 with
\* its results and summary, also when every URL failed.
C17_UrlFailuresIsolated ==
  \A p \in Procs :
    LET q == proc[p]
        png == [lead |-> PngLead, size |-> 90]
    IN /\ \A k \in 1..Len(q.results) :
            /\ q.results[k].url = q.urls[k]
            /\ Plain200(q, k) /\ q.nets[k].body = png => q.results[k].success
            /\ ~Responded(q.nets[k]) \/ q.nets[k].body = EmptyPayload
                 \/ (~IsSvgUrl(q.urls[k]) /\ q.nets[k].ctype = "text/plain"
                       /\ q.nets[k].body.lead = HtmlLead)
                 => ~q.results[k].success
       /\ q.pc = "commit" => Len(q.results) = Len(q.urls)
       /\ q.pc = "done" /\ q.results # <<>>
            => /\ q.resp.status = 200 /\ q.resp.kind = "completed"
               /\ q.resp.total = Len(q.urls)
               /\ q.resp.failed = Len(q.urls) - CountSuccess(q.results)

\* C17 witness: a batch of two URLs answers 200 with both URLs failed, one
\* by its fetch and one by its content
C17_Witness ==
  \E p \in Procs :
    /\ Completed200(proc[p]) /\ Len(proc[p].urls) = 2
    /\ proc[p].resp.successful = 0 /\ proc[p].resp.failed = 2
    /\ proc[p].results[1].error = "Failed to download image"
    /\ proc[p].results[2].error = "Not an image file"

\* C18: the check of GET /remaining, canDownload(0), is allowed in every
\* state of the user's record, also with a count at or above the limit.
C18_ProbeAlwaysAllowed ==
  \A p \in Procs :
    LET q == proc[p]
    IN q.pc = "done" /\ q.resp.kind = "remaining" /\ q.auth => q.resp.allowed

\* C19: a quota check leaves the stored count as it found it, whatever the
\* requested count, unless it found a window of an earlier day and wrote
\* count 0 with the window moved to its day.
C19_CheckAddsNothing ==
  \A p \in Procs :
    LET q == proc[p]
    IN \/ q.pc \in {"fetch", "commit"}
       \/ q.pc = "done" /\ q.resp.kind \in {"quota", "too_many", "remaining"}
       => \/ StoredCount(q) = q.seen.count
          \/ q.seen.stale /\ StoredCount(q) = 0 /\ StoredWindow(q) = q.day

\* C19 witness: a user at 4 is admitted with 2 URLs and the record still
\* holds 4
C19_Witness ==
  \E p \in Procs :
    /\ proc[p].pc = "fetch" /\ proc[p].auth
    /\ proc[p].seen.count = 4 /\ Len(proc[p].urls) = 2
    /\ users[proc[p].key].count = 4

\* C20: a step of a request of one identity leaves the record of every
\* other session and user as it was, and a request is admitted exactly when
\* the count of its own record plus its URLs is within its own limit.
C20_IdentitiesIndependent ==
  [][\A p \in PairProcs :
       proc'[p] # proc[p] =>
         LET q == proc'[p]
         IN /\ \A s \in PairSessionIds :
                 q.auth \/ s # q.key => sessions'[s] = sessions[s]
            /\ \A u \in UserIds :
                 ~q.auth \/ u # q.key => users'[u] = users[u]
            /\ proc[p].pc = "idle" /\ (q.pc = "fetch" \/ q.resp.kind = "quota")
                 => /\ q.seen = (IF q.auth THEN SeenUser(users[q.key], today)
                                 ELSE SeenSession(sessions[q.key], today))
                    /\ (q.pc = "fetch") =
                         (CheckedCurrent(q) + Len(q.urls) <= q.seen.limit)]_vars

\* C20 witness: the session s1 holds 2 committed downloads while the
\* request of the session s2, whose record holds 1, is being fetched
C20_Witness ==
  /\ sessions["s1"].exists /\ sessions["s1"].count = 2
  /\ sessions["s2"].exists /\ sessions["s2"].count = 1
  /\ proc[2].pc = "fetch" /\ proc[2].key = "s2" /\ proc[1].pc = "save"

Sanitize(name) ==
  [k \in 1..Len(name) |-> IF name[k] \in {"?", "&", "="} THEN "_" ELSE name[k]]

\* the last path segment of the URL without its query string
LastSegment(url) ==
  LET path == Split(url, "?")[1]
      parts == Split(path, "/")
  IN parts[Len(parts)]

\* C21: the file name of a success is the last path segment of the URL
\* without its query string: as it is when it holds a dot, with the
\* extension of the resolved type appended when it holds none, image-n with
\* that extension (n the 1-based position) when it is empty; and every ?,
\* & and = of the name is replaced by _.
C21_FilenamePolicy ==
  LET q == proc[1]
  IN q.pc = "named" /\ q.named.success =>
       LET seg == LastSegment(q.url)
           ext == Extension(q.named.contentType)
           base == IF Includes(seg, ".") THEN seg
                   ELSE IF seg # <<>> THEN seg \o <<".">> \o ext
                   ELSE <<"image-", ToString(q.i + 1), ".">> \o ext
       IN q.named.filename = Sanitize(base)

\* a delivery the handler went through: the seller id was not refused and
\* the database raised no error
HookProcessed(q) ==
  /\ q.pc = "hooked" /\ q.fault = "none"
  /\ ~SellerRejected(q.payload, q.expected)

\* C22: after a delivery with status cancelled, subscription_cancelled,
\* failed or refunded, or with refunded true, for the email of a user, the
\* user's subscription is free and its expiry is removed.
C22_CancellationFrees ==
  LET q == proc[1]
  IN /\ HookProcessed(q) /\ q.payload.email = "known"
     /\ \/ q.payload.status \in {"cancelled", "subscription_cancelled",
                                 "failed", "refunded"}
        \/ q.payload.refunded \in {"string:true", "boolean:true"}
     => users["u1"].status = "free" /\ users["u1"].expiresAt = NoDate

\* C23: after a delivery with an activation status for the email of a user,
\* the user's subscription is pro and expires one month after the day of
\* the delivery; and a check of a user whose subscription is pro and not
\* yet expired has no limit and refuses no batch within the cap.
C23_ActivationUnlimited ==
  LET q == proc[1]
  IN /\ /\ HookProcessed(q) /\ q.payload.email = "known"
        /\ q.payload.status \in {"completed", "subscription_activated", "charge"}
        => /\ users["u1"].status = "pro"
           /\ users["u1"].expiresAt = q.day + MonthDays
     /\ /\ q.pc \in {"fetch", "done"} /\ q.auth
        /\ q.resp.kind \in {"none", "quota", "remaining"}
        /\ users[q.key].status = "pro" /\ q.day < users[q.key].expiresAt
        => /\ q.seen.limit = Infinity
           /\ q.resp.kind # "quota"
           /\ q.resp.kind = "remaining" => q.resp.limit = Infinity

\* C23 witness: the user activated by a delivery holds 10 downloads of the
\* day and is admitted with 10 more
C23_Witness ==
  /\ proc[1].pc = "fetch" /\ proc[1].auth /\ Len(proc[1].urls) = 10
  /\ proc[1].seen.count = 10 /\ proc[1].seen.limit = Infinity
  /\ users["u1"].status = "pro" /\ users["u1"].expiresAt = proc[1].day + MonthDays

C25_SellerIdRequired ==
  LET q == proc[1]
  IN q.pc = "hooked" /\ q.expected # "" /\ q.payload.seller_id # q.expected
       => \A u \in UserIds :
            /\ users[u].status = q.before[u].status
            /\ users[u].expiresAt = q.before[u].expiresAt

\* the request of a user right after its check: admitted and not yet
\* committed, refused for the quota, or answered by GET /remaining
UserChecked(q) ==
  /\ q.auth
  /\ q.pc = "fetch" \/ (q.pc = "done" /\ q.resp.kind \in {"quota", "remaining"})

\* C26: the check gives a user no limit exactly when the stored status is
\* pro, an expiry is stored and the day of the check is before it; in every
\* other case the limit is 10, and within the day window the stored count,
\* whenever it was accumulated, is what the batch is added to.
C26_SubscribedIffProUnexpired ==
  \A p \in Procs :
    LET q == proc[p]
        u == users[q.key]
        active == u.status = "pro" /\ u.expiresAt # NoDate /\ q.day < u.expiresAt
    IN UserChecked(q) =>
         /\ q.seen.limit = (IF active THEN Infinity ELSE RegisteredLimit)
         /\ q.resp.kind = "remaining" => q.resp.limit = q.seen.limit
         /\ active => q.resp.kind # "quota"
         /\ ~active /\ u.lastReset = q.day /\ q.resp.kind # "remaining"
              => (q.resp.kind = "quota") = (u.count + Len(q.urls) > RegisteredLimit)

\* C26 witness: a user whose pro subscription expired, with 11 downloads
\* of the day, is refused one URL
C26_Witness ==
  \E p \in Procs :
    /\ proc[p].pc = "done" /\ proc[p].auth /\ proc[p].resp.kind = "quota"
    /\ users[proc[p].key].status = "pro"
    /\ users[proc[p].key].expiresAt # NoDate
    /\ users[proc[p].key].expiresAt <= proc[p].day
    /\ users[proc[p].key].lastReset = proc[p].day
    /\ proc[p].resp.current = 11 /\ Len(proc[p].urls) = 1

\* C27: a quota answer with a finite limit (the refusal of a batch, the
\* answer of /remaining) carries remaining = max(0, limit - current): never
\* negative, and limit - current whenever current is within the limit.
C27_RemainingClamped ==
  \A p \in Procs :
    LET q == proc[p]
    IN /\ q.pc = "done" /\ q.resp.kind \in {"quota", "remaining"}
       /\ q.resp.limit # Infinity
       => /\ q.resp.limit = (IF q.auth THEN RegisteredLimit ELSE AnonymousLimit)
          /\ q.resp.current = CheckedCurrent(q)
          /\ q.resp.remaining >= 0
          /\ q.resp.current <= q.resp.limit
               => q.resp.current + q.resp.remaining = q.resp.limit
          /\ q.resp.current > q.resp.limit => q.resp.remaining = 0

\* C27 witness: a user above the limit asks GET /remaining and is told 0
C27_Witness ==
  \E p \in Procs :
    /\ proc[p].pc = "done" /\ proc[p].auth /\ proc[p].resp.kind = "remaining"
    /\ proc[p].resp.limit = RegisteredLimit
    /\ proc[p].resp.current = 11 /\ proc[p].resp.remaining = 0

\* the last n entries of a history
LastEntries(h, n) == IF Len(h) > n THEN SubSeq(h, Len(h) - n + 1, Len(h)) ELSE h

\* C28: the stored history of a user holds at most 50 entries in the order
\* of their saves; each entry has successCount + failedCount = totalCount =
\* the number of its URLs; and the save that ends a batch, also one whose
\* URLs all failed, turns the history into the last 50 of the old entries
\* followed by the entry of the batch, while no other step changes it.
C28_HistoryBounded ==
  [][\A u \in UserIds :
       LET old == users[u].downloadHistory
           new == users'[u].downloadHistory
       IN /\ Len(new) <= 50
          /\ \A k \in 1..Len(new) :
               /\ new[k].successCount + new[k].failedCount = new[k].totalCount
               /\ new[k].totalCount = Len(new[k].urls)
               /\ k > 1 => new[k - 1].id < new[k].id
          /\ IF proc[1].pc = "hist" /\ proc'[1].pc = "done" /\ proc[1].key = u
               THEN /\ new = LastEntries(Append(old, new[Len(new)]), 50)
                    /\ new[Len(new)].urls = proc[1].urls
                    /\ new[Len(new)].successCount = CountSuccess(proc[1].results)
                    /\ \A k \in 1..Len(old) : old[k].id < new[Len(new)].id
               ELSE new = old]_vars

\* C28 witness: a history of 50 entries after a batch whose only URL
\* failed: the entry of the batch is the last, the oldest entry is gone
C28_Witness ==
  LET h == users["u1"].downloadHistory
  IN /\ proc[1].pc = "done" /\ proc[1].resp.kind = "completed"
     /\ CountSuccess(proc[1].results) = 0 /\ Len(proc[1].urls) = 1
     /\ Len(h) = 50 /\ h[50].id = 2 /\ h[50].failedCount = 1
     /\ h[1].id = 0 - 47

\* C29: once DELETE /history has answered that the history is cleared, the
\* stored history of the user, which GET /history returns, is empty.
C29_ClearedHistoryEmpty ==
  \A p \in Procs :
    proc[p].pc = "answered" /\ proc[p].resp.kind = "cleared"
      => users[proc[p].key].downloadHistory = <<>>

\* C30: a request whose urls is missing, no array or empty, and a request
\* of no user that carries no sessionId, is answered 400 with nothing
\* fetched and no result, and its handling leaves every session and every
\* user document as it was, creating none.
C30_InvalidRequestRejected ==
  [][\A p \in Procs :
       /\ proc[p].pc = "idle" /\ proc'[p].pc = "done"
       /\ "body" \in DOMAIN proc'[p]
       => LET q == proc'[p]
          IN /\ InvalidUrls(q.body) \/ (~q.auth /\ q.body.sessionId = "")
             /\ q.resp.status = 400
             /\ q.nets = <<>> /\ q.results = <<>> /\ q.i = 0
             /\ sessions' = sessions /\ users' = users]_vars

\* C30 witness: a request of no user with two URLs and no sessionId is
\* answered 400 while the session s1 holds 1 download
C30_Witness ==
  /\ proc[1].pc = "done" /\ "body" \in DOMAIN proc[1]
  /\ ~proc[1].auth /\ proc[1].body.sessionId = ""
  /\ proc[1].body.urlsKind = "array" /\ Len(proc[1].body.urls) = 2
  /\ proc[1].resp.status = 400 /\ proc[1].resp.kind = "session_required"
  /\ sessions["s1"].exists /\ sessions["s1"].count = 1

\* C31: the downloads of a batch are the entries of its successful results,
\* one each and in their order: as many as the summary counts, the k-th
\* with the URL, the name and the size of the k-th success.
C31_DownloadsMatchSuccesses ==
  \A p \in Procs :
    LET q == proc[p]
        successes == SelectSeq(q.results, LAMBDA r : r.success)
    IN /\ Len(q.downloads) = Len(successes)
       /\ \A k \in 1..Len(q.downloads) :
            /\ q.downloads[k].url = successes[k].url
            /\ q.downloads[k].ext = successes[k].ext
            /\ q.downloads[k].size = successes[k].size
       /\ Completed200(q) => Len(q.downloads) = q.resp.successful

\* C31 witness: a batch of an SVG and a PNG, both successes, answers with
\* the download of the SVG first and that of the PNG second
C31_Witness ==
  /\ Completed200(proc[1]) /\ proc[1].urls = <<2, 1>>
  /\ proc[1].resp.successful = 2 /\ Len(proc[1].downloads) = 2
  /\ proc[1].downloads[1].url = 2 /\ proc[1].downloads[1].isSvg
  /\ proc[1].downloads[2].url = 1 /\ ~proc[1].downloads[2].isSvg

\* C32: a payload of at least one byte that the classification accepts as
\* an image is a Success whose size is the number of bytes of the payload,
\* however short the payload.
C32_ShortImageSucceeds ==
  \A p \in Procs :
    \A k \in 1..Len(proc[p].results) :
      LET q == proc[p]
          r == q.results[k]
          net == q.nets[k]
      IN /\ Plain200(q, k) /\ net.body.size > 0
         /\ Classify(net.ctype, net.body).isImage
         => r.success /\ r.size = net.body.size

\* C33: in the client's quota view canDownload(n) is false while a quota
\* status is still being fetched, and a view left by a failed fetch holds a
\* finite limit (10 or 5) with remaining equal to the limit and is not a
\* Pro view.
C33_ViewSafeWhileLoading ==
  LET v == proc[1] IN
  v.pc = "view" =>
    /\ v.fetches # <<>> =>
         \A n \in 1..MaxLen : ~canDownload(v.remainingDownloads, n)
    /\ v.remainingDownloads.error =>
         /\ v.remainingDownloads.limit \in {5, 10}
         /\ v.remainingDownloads.remaining = v.remainingDownloads.limit
         /\ ~isProUser(v.remainingDownloads)

\* C34: every call of downloadViaBackend with a non-empty URL list sets
\* isDownloading to true, and whenever isDownloading is true the call
\* eventually reaches, on every path, a state where isDownloading is false
\* and the progress map is empty.
C34_DownloadingEventuallyCleared ==
  /\ [][proc[1].pc = "ready" /\ proc'[1].pc = "posting"
          => proc'[1].urls # <<>> /\ proc'[1].isDownloading]_vars
  /\ (proc[1].pc = "posting" /\ proc[1].isDownloading)
       ~> (/\ proc[1].pc = "ready" /\ ~proc[1].isDownloading
           /\ proc[1].downloadProgress = {})

C34_Witness ==
  /\ proc[1].pc = "ready" /\ proc[1].path = "exception"
  /\ proc[1].settled = "rejected" /\ proc[1].urls # <<>>
  /\ ~proc[1].isDownloading /\ proc[1].downloadProgress = {}

====
